---- MODULE Spec2Model ----
(***************************************************************************)
(* A model of the core of surrealdb-prometheus-exporter: the operation     *)
(* accumulator and the live-query manager (internal/surrealdb/             *)
(* live_query.go), the connection managers (internal/surrealdb/            *)
(* connection.go) and the table filter (internal/engine/table_filter.go).  *)
(*                                                                         *)
(* Go strings are modelled as tuples of one-character strings, so that     *)
(* concatenation (\o) and glob matching work on the characters.            *)
(* Every goroutine is a process with a program counter; a step of a        *)
(* process is one action.  Each component has its own next-state relation  *)
(* and specification; the variables of the other components stay as they   *)
(* were constructed.                                                       *)
(***************************************************************************)
EXTENDS Integers, Sequences, FiniteSets, Bags, TLC

VARIABLES
    \* OperationAccumulator
    metrics,        \* a.metrics: key -> TableOperationMetrics
    accMu,          \* a.mu: the goroutine holding it, or NoOwner
    accPc,          \* position of each goroutine using the accumulator
    accArgs,        \* arguments of the Record call in progress
    accResult,      \* result slice a GetAndClear in progress has built
    \* history of the accumulator's calls (not program state)
    outstanding,    \* completed Record calls minus the counts all returned
                    \* GetAndClear results reported, per (table, kind, action)
    sinceDrain,     \* Record calls completed since the last GetAndClear returned
    numRecords,     \* Record calls started
    numDrains,      \* GetAndClear calls started
    \* LiveQueryManager
    activeQueries,  \* m.activeQueries: table key -> liveQueryState
    lqMu,           \* m.mu: "reconcile" while a pass holds it, or NoOwner
    lqDesired,      \* desiredTables of the pass holding m.mu
    mCancelled,     \* m.ctx is cancelled (Stop was called)
    pending,        \* reconcileQueries goroutines spawned and not yet past m.mu.Lock()
    wTable,         \* manageLiveQuery goroutine -> its tableID
    wPc,            \* manageLiveQuery goroutine -> its position
    wAttempts,      \* manageLiveQuery goroutine -> its attempts counter
    wRunCancelled,  \* the context of the goroutine's current runLiveQuery is cancelled
    numCalls,       \* LiveQueryInfo calls made so far
    lqErr,          \* the error the latest LiveQueryInfo call returned
    stopReturned,   \* Stop has returned from m.wg.Wait()
    \* history of the manager (not program state)
    lastDesired,    \* the desired list of the latest LiveQueryInfo call
    inOrder,        \* every pass so far ran in the order of the calls
    wOnlyStream,    \* goroutine -> every attempt so far ended by a failure of
                    \* the stream of a registered subscription
    \* ConnectionManager
    dbConnManager,  \* main's dbConnManager: "nil", "single" or "multi"
    sessions,       \* the sessions createConnection returned: id -> its scope
                    \* and the number of conn.Use calls made on it (history)
    sConn,          \* singleConnectionManager.conn (Nil or a session id)
    lastNS,         \* singleConnectionManager.lastNS
    lastDB,         \* singleConnectionManager.lastDB
    sMu,            \* singleConnectionManager.mu: its owner or NoOwner
    connections,    \* multiConnectionManager.connections: key -> session id
    creating,       \* multiConnectionManager.creating: key -> owner of the mutex
    gPc,            \* position of each goroutine calling Get
    gArgs,          \* the ns and db of its Get call
    gResult,        \* what its Get returned (or holds in newConn)
    numGets,        \* Get calls made so far
    \* history of the connection manager (not program state)
    gWaited,        \* goroutine -> it was waiting for the mutex when the holder's
                    \* createConnection failed
    \* tableFilter
    fMade,          \* NewTableFilter was called
    fFilter,        \* the tableFilter: includePatterns, excludePatterns, hasIncludes
    fCalled,        \* FilterTables was called
    fTables,        \* the tables of the FilterTables call
    fFiltered,      \* what the FilterTables call returned
    \* OperationTypeDetector
    dCalled,        \* DetectFromRecord was called
    dInput,         \* the record it was called with
    dType,          \* the operation type it returned
    \* StatsTableManager
    stMade,         \* NewStatsTableManager was called
    removeOrphanTables, \* m.removeOrphanTables
    activeTables,   \* m.activeTables: table key -> statsTableState
    stMu,           \* m.mu: "reconcile" while a pass holds it, or NoOwner
    stPending,      \* reconcileTables goroutines not yet past m.mu.Lock()
    stCalls,        \* StatsTableInfo calls made so far
    sPc,            \* position of the StatsTableInfo call
    sDesired,       \* its tableIDs
    qPc,            \* table -> position of its queryStatsTable goroutine
    qConn,          \* table -> the session its goroutine got
    qOut,           \* table -> how its query ended
    stResult,       \* result of queryAllStatsTables
    stErr,          \* the error StatsTableInfo returned
    rPc,            \* position of the reconcileTables pass holding m.mu
    rDesired,       \* its desiredTables
    rKey,           \* the table key it is removing or creating
    rConn,          \* the session removeStatsTable/createStatsTable got
    rIdx,           \* the DEFINE EVENT statement createStatsTable is at
    rWarned,        \* removeStatsTable logged a failed REMOVE EVENT (history)
    rFailed,        \* the keys whose removal failed and which have not been
                    \* provisioned again since -> the number of calls made
                    \* when it failed (history)
    rTried,         \* the keys whose creation failed in this pass
    \* the database
    dbUp,           \* the database is reachable
    dbRecords,      \* (ns, db, side table) -> the record <side table>:stats
    dbEvents,       \* the events defined: (ns, db, table, event name)
    \* tableInfoCache
    cHeap,          \* the TableInfo objects: a pointer is an index
    cArrays,        \* the slices' arrays of pointers: a slice is an index
    cTables,        \* c.tables
    cGot,           \* the slice a caller of get holds, or NoSlice
    cLastSet,       \* the list of the most recent set (empty after clear)
    cEntryWritten,  \* a caller of get has written to an entry of c.tables
    numCacheOps,    \* operations on the cache and on its results so far
    \* the stats_create / stats_update / stats_delete events
    tRecord,        \* the record written to a monitored table ($after / $before)
    tOpType,        \* the $op_type the event computed for it
    \* processNotification (history, not program state)
    pnLast,         \* goroutine -> the notification it processed last, the
                    \* number of that call and the action derived from it
    numNotifs,      \* processNotification calls made so far
    \* StatsTableCollector
    scMade,         \* the collector is constructed
    scFilter,       \* c.filter
    scTables,       \* what c.tableCache.get() returned to the last Collect
    scCalled,       \* the last Collect called StatsTableInfo
    scPassed,       \* the table identifiers it passed to StatsTableInfo
    scSideTables,   \* the side tables provisioned so far: their targets
    numCollects,    \* Collect calls made so far
    \* one manageLiveQuery goroutine, under any configured maximum
    cfgMax,         \* m.maxReconnectAttempts as configured
    mPc,            \* where the goroutine is
    mAttempts,      \* its local variable attempts
    mCtxDone,       \* m.ctx is cancelled
    mRuns,          \* runLiveQuery calls it has made (history)
    mOpened,        \* subscriptions it has opened (history)
    mReads,         \* notifications it has processed (history)
    \* the keys of two tables
    kCompared,      \* two identifiers have been given their keys
    kT,             \* the first TableIdentifier
    kU,             \* the second
    kParsed         \* what ParseTableIdentifier made of kT.String()

accVars == <<metrics, accMu, accPc, accArgs, accResult, outstanding,
             sinceDrain, numRecords, numDrains>>

lqVars == <<activeQueries, lqMu, lqDesired, mCancelled, pending, wTable, wPc,
            wAttempts, wRunCancelled, numCalls, lqErr, stopReturned,
            lastDesired, inOrder, wOnlyStream>>

poolVars == <<dbConnManager, sessions, sConn, lastNS, lastDB, sMu, connections,
              creating, gPc, gArgs, gResult, numGets, gWaited>>

filterVars == <<fMade, fFilter, fCalled, fTables, fFiltered>>

detectVars == <<dCalled, dInput, dType>>

statsVars == <<stMade, removeOrphanTables, activeTables, rFailed, stMu, stPending,
               stCalls, sPc, sDesired, qPc, qConn, qOut, stResult, stErr, rPc,
               rDesired, rKey, rConn, rIdx, rWarned, rTried, dbUp, dbRecords,
               dbEvents>>

cacheVars == <<cHeap, cArrays, cTables, cGot, cLastSet, cEntryWritten,
               numCacheOps>>

eventVars == <<tRecord, tOpType>>

notifVars == <<pnLast, numNotifs>>

collectVars == <<scMade, scFilter, scTables, scCalled, scPassed, scSideTables,
                 numCollects>>

manageVars == <<cfgMax, mPc, mAttempts, mCtxDone, mRuns, mOpened, mReads>>

keyVars == <<kCompared, kT, kU, kParsed>>

vars == <<accVars, lqVars, poolVars, filterVars, detectVars, statsVars,
          cacheVars, eventVars, notifVars, collectVars, manageVars, keyVars>>

\* What the actions of one component leave unchanged: the other components.
notAccVars == <<lqVars, poolVars, filterVars, detectVars, statsVars,
    cacheVars, eventVars, notifVars, collectVars, manageVars,
    keyVars>>
notLqVars == <<accVars, poolVars, filterVars, detectVars, statsVars,
    cacheVars, eventVars, notifVars, collectVars, manageVars,
    keyVars>>
notAccLqVars == <<poolVars, filterVars, detectVars, statsVars,
    cacheVars, eventVars, notifVars, collectVars, manageVars,
    keyVars>>
notPoolVars == <<accVars, lqVars, filterVars, detectVars, statsVars,
    cacheVars, eventVars, notifVars, collectVars, manageVars,
    keyVars>>
notFilterVars == <<accVars, lqVars, poolVars, detectVars, statsVars,
    cacheVars, eventVars, notifVars, collectVars, manageVars,
    keyVars>>
notDetectVars == <<accVars, lqVars, poolVars, filterVars, statsVars,
    cacheVars, eventVars, notifVars, collectVars, manageVars,
    keyVars>>
notStatsVars == <<accVars, lqVars, poolVars, filterVars, detectVars,
    cacheVars, eventVars, notifVars, collectVars, manageVars,
    keyVars>>
notStatsPoolVars == <<accVars, lqVars, filterVars, detectVars,
    cacheVars, eventVars, notifVars, collectVars, manageVars,
    keyVars>>
notCacheVars == <<accVars, lqVars, poolVars, filterVars, detectVars,
    statsVars, eventVars, notifVars, collectVars, manageVars,
    keyVars>>
notDetectEventVars == <<accVars, lqVars, poolVars, filterVars, statsVars,
    cacheVars, notifVars, collectVars, manageVars,
    keyVars>>
notAccNotifVars == <<lqVars, poolVars, filterVars, detectVars, statsVars,
    cacheVars, eventVars, collectVars, manageVars,
    keyVars>>
notCollectVars == <<accVars, lqVars, poolVars, filterVars, detectVars,
    statsVars, cacheVars, eventVars, notifVars, manageVars,
    keyVars>>
notManageVars == <<accVars, lqVars, poolVars, filterVars, detectVars,
    statsVars, cacheVars, eventVars, notifVars, collectVars,
    keyVars>>
notKeyVars == <<accVars, lqVars, poolVars, filterVars, detectVars,
    statsVars, cacheVars, eventVars, notifVars, collectVars, manageVars>>

----------------------------------------------------------------------------
(* Bounds of the model *)

MaxRecords == 3
MaxDrains == 2
MaxScrapes == 2
MaxReaddScrapes == 3
\* LiveQueryManager.maxReconnectAttempts (configuration)
maxReconnectAttempts == 2
MaxGets == 2
MaxPatterns == 2
MaxTables == 2
MaxStatsCalls == 2
MaxRemovalCalls == 3
MaxCacheLen == 2
MaxCacheOps == 4
MaxNotifs == 3
MaxCollects == 3
MaxCollectTables == 2
MaxConfiguredAttempts == 3
MaxReads == 2
MaxNameLen == 2

----------------------------------------------------------------------------
(* Strings and identifiers *)

Colon == <<":">>

\* The characters names, patterns and keys are made of.
Alphabet == <<"a", "b", "c", "d", "e", "m", "n", "o", ":", "*", "?", "_">>

NoOwner == "none"

\* The nil error.
ErrNil == "nil"

\* m.mu.Lock() returns at once whoever holds the mutex (no mutual exclusion).
Lockable_Unguarded(mu) == TRUE

\* m.mu.Lock() returns only when no goroutine holds the mutex.
Lockable(mu) == mu = NoOwner

\* domain.OperationType
OperationTypeGraph == <<"g", "r", "a", "p", "h">>
OperationTypeRelational == <<"r", "e", "l">>
OperationTypeKeyValue == <<"k", "v">>
OperationTypeDocument == <<"d", "o", "c">>
OperationTypeUnknown == <<"u", "n", "k">>

\* domain.OperationAction
ActionCreate == "CREATE"
ActionUpdate == "UPDATE"
ActionDelete == "DELETE"
ActionUnknown == "UNKNOWN"

OperationActions == {ActionCreate, ActionUpdate, ActionDelete, ActionUnknown}
CountedActions == {ActionCreate, ActionUpdate, ActionDelete}

TableIdentifier(ns, db, t) == [Namespace |-> ns, Database |-> db, Table |-> t]

\* TableIdentifier.String
TableString(t) == t.Namespace \o Colon \o t.Database \o Colon \o t.Table

\* makeKey without the operation type
makeKey_TableOnly(tableID, opType) == TableString(tableID)

\* makeKey
makeKey(tableID, opType) == TableString(tableID) \o Colon \o opType

EmptyMap == [k \in {} |-> 0]

MapPut(m, k, v) == [x \in (DOMAIN m) \cup {k} |-> IF x = k THEN v ELSE m[x]]

MapDelete(m, k) == [x \in (DOMAIN m) \ {k} |-> m[x]]

\* A fixed total order on strings (used only to number things).
CharCode(c) ==
    CHOOSE i \in 1..Len(Alphabet) : Alphabet[i] = c

RECURSIVE LexLeq(_, _)
LexLeq(a, b) ==
    IF a = <<>> THEN TRUE
    ELSE IF b = <<>> THEN FALSE
    ELSE IF Head(a) = Head(b) THEN LexLeq(Tail(a), Tail(b))
    ELSE CharCode(Head(a)) < CharCode(Head(b))

----------------------------------------------------------------------------
(* OperationAccumulator *)

\* The tables, kinds and goroutines the accumulator is exercised with.
AccTables == {TableIdentifier(<<"n">>, <<"d">>, <<"a">>),
              TableIdentifier(<<"n">>, <<"e">>, <<"a">>)}
AccKinds == {OperationTypeRelational, OperationTypeUnknown}
Recorders == {"w1", "w2"}
Scrapers == {"s1", "s2"}
AccProcs == Recorders \cup Scrapers

AccCalls == AccTables \X AccKinds \X OperationActions

ZeroLog == [c \in AccCalls |-> 0]

NewOperationAccumulator ==
    /\ metrics = EmptyMap
    /\ accMu = NoOwner
    /\ accPc = [p \in AccProcs |-> "idle"]
    /\ accArgs = [p \in Recorders |-> <<>>]
    /\ accResult = [p \in Scrapers |-> EmptyBag]
    /\ outstanding = ZeroLog
    /\ sinceDrain = ZeroLog
    /\ numRecords = 0
    /\ numDrains = 0

NewTableOperationMetrics(tableID, opType) ==
    [Namespace |-> tableID.Namespace, Database |-> tableID.Database,
     Table |-> tableID.Table, OperationType |-> opType,
     Creates |-> 0, Updates |-> 0, Deletes |-> 0]

\* switch action { case ActionCreate: metrics.Creates++ ... }
Increment(m, action) ==
    CASE action = ActionCreate -> [m EXCEPT !.Creates = @ + 1]
      [] action = ActionUpdate -> [m EXCEPT !.Updates = @ + 1]
      [] action = ActionDelete -> [m EXCEPT !.Deletes = @ + 1]
      [] OTHER -> m

\* A goroutine calls Record(tableID, opType, action) and passes a.mu.Lock().
\* A caller blocked on the lock has done nothing yet: the call and the
\* acquisition are one step.
RecordEnter(p, tableID, opType, action) ==
    /\ accPc[p] = "idle"
    /\ numRecords < MaxRecords
    /\ accMu = NoOwner
    /\ accMu' = p
    /\ numRecords' = numRecords + 1
    /\ accArgs' = [accArgs EXCEPT ![p] = <<tableID, opType, action>>]
    /\ accPc' = [accPc EXCEPT ![p] = "rec_lookup"]
    /\ UNCHANGED <<metrics, accResult, outstanding, sinceDrain, numDrains>>

\* Record called on the accumulator alone.
RecordLock(p, tableID, opType, action) ==
    /\ RecordEnter(p, tableID, opType, action)
    /\ UNCHANGED notAccVars

\* metrics, exists := a.metrics[key]; if !exists { ... a.metrics[key] = metrics }
RecordLookup(p) ==
    /\ accPc[p] = "rec_lookup"
    /\ LET key == makeKey(accArgs[p][1], accArgs[p][2])
       IN metrics' = IF key \in DOMAIN metrics
                     THEN metrics
                     ELSE MapPut(metrics, key,
                                 NewTableOperationMetrics(accArgs[p][1], accArgs[p][2]))
    /\ accPc' = [accPc EXCEPT ![p] = "rec_switch"]
    /\ UNCHANGED <<accMu, accArgs, accResult, outstanding, sinceDrain,
                   numRecords, numDrains>>
    /\ UNCHANGED notAccVars

\* The switch on action, then the return (the deferred a.mu.Unlock()): the
\* call is complete.
RecordReturn(p) ==
    /\ accPc[p] = "rec_switch"
    /\ LET key == makeKey(accArgs[p][1], accArgs[p][2])
       IN metrics' = IF key \in DOMAIN metrics
                     THEN [metrics EXCEPT ![key] = Increment(@, accArgs[p][3])]
                     ELSE metrics
    /\ accMu' = NoOwner
    /\ accPc' = [accPc EXCEPT ![p] = "idle"]
    /\ outstanding' = [outstanding EXCEPT ![accArgs[p]] = @ + 1]
    /\ sinceDrain' = [sinceDrain EXCEPT ![accArgs[p]] = @ + 1]
    /\ accArgs' = [accArgs EXCEPT ![p] = <<>>]
    /\ UNCHANGED <<accResult, numRecords, numDrains>>
    /\ UNCHANGED notAccVars

GetAndClearLock_NoLock(s) ==
    /\ accPc[s] = "idle"
    /\ numDrains < MaxDrains
    /\ numDrains' = numDrains + 1
    /\ accPc' = [accPc EXCEPT ![s] = "get_copy"]
    /\ UNCHANGED <<metrics, accMu, accArgs, accResult, outstanding, sinceDrain,
                   numRecords>>
    /\ UNCHANGED notAccVars

\* A scrape calls GetAndClear() and passes a.mu.Lock().
GetAndClearLock(s) ==
    /\ accPc[s] = "idle"
    /\ numDrains < MaxDrains
    /\ accMu = NoOwner
    /\ accMu' = s
    /\ numDrains' = numDrains + 1
    /\ accPc' = [accPc EXCEPT ![s] = "get_copy"]
    /\ UNCHANGED <<metrics, accArgs, accResult, outstanding, sinceDrain,
                   numRecords>>
    /\ UNCHANGED notAccVars

\* The result slice: one copy per map entry, in the map's iteration order.
\* The order is not modelled: the slice is a bag of entries.
CopyAll(m) ==
    LET entries == {m[k] : k \in DOMAIN m}
    IN [e \in entries |-> Cardinality({k \in DOMAIN m : m[k] = e})]

\* for _, m := range a.metrics { result = append(result, metricsCopy) }
GetAndClearCopy(s) ==
    /\ accPc[s] = "get_copy"
    /\ accResult' = [accResult EXCEPT ![s] = CopyAll(metrics)]
    /\ accPc' = [accPc EXCEPT ![s] = "get_reset"]
    /\ UNCHANGED <<metrics, accMu, accArgs, outstanding, sinceDrain, numRecords, numDrains>>
    /\ UNCHANGED notAccVars

ClearedMetrics_Kept(m) == m

\* a.metrics = make(map[string]*domain.TableOperationMetrics)
ClearedMetrics(m) == EmptyMap

GetAndClearReset(s) ==
    /\ accPc[s] = "get_reset"
    /\ metrics' = ClearedMetrics(metrics)
    /\ accPc' = [accPc EXCEPT ![s] = "get_unlock"]
    /\ UNCHANGED <<accMu, accArgs, accResult, outstanding, sinceDrain, numRecords, numDrains>>
    /\ UNCHANGED notAccVars

\* The count a result holds for (table, kind, action).
FieldOf(e, action) ==
    CASE action = ActionCreate -> e.Creates
      [] action = ActionUpdate -> e.Updates
      [] action = ActionDelete -> e.Deletes
      [] OTHER -> 0

EntryIsFor(e, tableID, opType) ==
    /\ e.Namespace = tableID.Namespace
    /\ e.Database = tableID.Database
    /\ e.Table = tableID.Table
    /\ e.OperationType = opType

RECURSIVE SumEntries(_, _, _)
SumEntries(bag, entries, action) ==
    IF entries = {} THEN 0
    ELSE LET e == CHOOSE x \in entries : TRUE
         IN bag[e] * FieldOf(e, action) + SumEntries(bag, entries \ {e}, action)

\* The total a returned result reports for one Record call shape.
ResultCount(bag, c) ==
    SumEntries(bag, {e \in DOMAIN bag : EntryIsFor(e, c[1], c[2])}, c[3])

\* GetAndClear returns (the deferred a.mu.Unlock()).
GetAndClearReturn(s) ==
    /\ accPc[s] = "get_unlock"
    /\ accMu' = NoOwner
    /\ accPc' = [accPc EXCEPT ![s] = "idle"]
    /\ sinceDrain' = ZeroLog
    /\ outstanding' = [c \in AccCalls |-> outstanding[c] - ResultCount(accResult[s], c)]
    /\ accResult' = [accResult EXCEPT ![s] = EmptyBag]
    /\ UNCHANGED <<metrics, accArgs, numRecords, numDrains>>
    /\ UNCHANGED notAccVars

NextAcc ==
    \/ \E p \in Recorders, t \in AccTables, k \in AccKinds, a \in OperationActions :
          RecordLock(p, t, k, a)
    \/ \E p \in Recorders : RecordLookup(p)
    \/ \E p \in Recorders : RecordReturn(p)
    \/ \E s \in Scrapers : GetAndClearLock(s)
    \/ \E s \in Scrapers : GetAndClearCopy(s)
    \/ \E s \in Scrapers : GetAndClearReset(s)
    \/ \E s \in Scrapers : GetAndClearReturn(s)

----------------------------------------------------------------------------
(* LiveQueryManager *)

\* The tables the manager is asked to monitor, and the goroutine slots.
LQTables == {TableIdentifier(<<"n">>, <<"d">>, <<"a">>),
             TableIdentifier(<<"n">>, <<"d">>, <<"b">>)}
DesiredLists == (SUBSET LQTables) \ {{}}
\* The manageLiveQuery goroutines alive at a time (a slot is free again once
\* its goroutine has returned).
Workers == {1, 2}
\* The tableID of a slot without a goroutine: the zero TableIdentifier.
NoTable == TableIdentifier(<<>>, <<>>, <<>>)
\* The value of lqErr before the first LiveQueryInfo has returned.
NotReturned == "none"

NewLiveQueryManager ==
    /\ activeQueries = EmptyMap
    /\ lqMu = NoOwner
    /\ lqDesired = {}
    /\ mCancelled = FALSE
    /\ pending = {}
    /\ wTable = [w \in Workers |-> NoTable]
    /\ wPc = [w \in Workers |-> "unused"]
    /\ wAttempts = [w \in Workers |-> 0]
    /\ wRunCancelled = [w \in Workers |-> FALSE]
    /\ numCalls = 0
    /\ lqErr = NotReturned
    /\ stopReturned = FALSE
    /\ lastDesired = {}
    /\ inOrder = TRUE
    /\ wOnlyStream = [w \in Workers |-> TRUE]

\* desired[table.String()] = table, for every table of the list
DesiredMap(tableIDs) ==
    [k \in {TableString(t) : t \in tableIDs} |->
        CHOOSE t \in tableIDs : TableString(t) = k]

\* The locks a LiveQueryInfo call takes: the accumulator's, in GetAndClear,
\* and with the reconciliation done before returning the manager's as well.
LocksOfLiveQueryInfo_Inline == {"accumulator.mu", "m.mu"}

\* The locks a LiveQueryInfo call takes: the accumulator's, in GetAndClear
\* (reconcileQueries, which takes m.mu, runs in a goroutine of its own).
LocksOfLiveQueryInfo == {"accumulator.mu"}

\* LiveQueryInfo(tableIDs): drains the accumulator, spawns the reconciliation
\* goroutine and returns the drained metrics with a nil error.
LiveQueryInfoWithin(tableIDs, maxCalls) ==
    /\ numCalls < maxCalls
    /\ "accumulator.mu" \in LocksOfLiveQueryInfo => accMu = NoOwner
    /\ "m.mu" \in LocksOfLiveQueryInfo => lqMu = NoOwner
    /\ lqErr' = ErrNil
    /\ metrics' = ClearedMetrics(metrics)
    /\ outstanding' = [c \in AccCalls |->
                          outstanding[c] - ResultCount(CopyAll(metrics), c)]
    /\ sinceDrain' = ZeroLog
    /\ numCalls' = numCalls + 1
    /\ pending' = pending \cup {[id |-> numCalls + 1, desired |-> tableIDs]}
    /\ lastDesired' = tableIDs
    /\ UNCHANGED <<accMu, accPc, accArgs, accResult, numRecords, numDrains>>
    /\ UNCHANGED <<activeQueries, lqMu, lqDesired, mCancelled, wTable, wPc,
                   wAttempts, wRunCancelled, inOrder, wOnlyStream,
                   stopReturned>>
    /\ UNCHANGED notAccLqVars

LiveQueryInfo(tableIDs) == LiveQueryInfoWithin(tableIDs, MaxScrapes)

\* Stop: m.cancel(); then it waits on m.wg.
Stop ==
    /\ ~mCancelled
    /\ mCancelled' = TRUE
    /\ UNCHANGED notLqVars
    /\ UNCHANGED <<activeQueries, lqMu, lqDesired, pending, wTable, wPc,
                   wAttempts, wRunCancelled, numCalls, lqErr, stopReturned, lastDesired,
                   inOrder, wOnlyStream>>

Done == {"stopped", "exhausted", "cancelled"}

FreeSlots == {w \in Workers : wPc[w] \in Done \cup {"unused"}}

\* Stop: m.wg.Wait() returns, every manageLiveQuery goroutine having
\* returned (defer m.wg.Done()).
StopReturns ==
    /\ mCancelled
    /\ ~stopReturned
    /\ FreeSlots = Workers
    /\ stopReturned' = TRUE
    /\ UNCHANGED notLqVars
    /\ UNCHANGED <<activeQueries, lqMu, lqDesired, mCancelled, pending, wTable,
                   wPc, wAttempts, wRunCancelled, numCalls, lqErr, lastDesired,
                   inOrder, wOnlyStream>>

\* The run of goroutine w that stored state st is still reading its stream:
\* state.cancelCtx() cancels that run's context. (When the run has returned,
\* its deferred cancel() has already cancelled it.)
CancelReaches(st, w) ==
    /\ wPc[w] = "read"
    /\ st.worker = w
    /\ st.tableID = wTable[w]
    /\ st.run = wAttempts[w]

\* reconcileQueries, first part: m.mu.Lock(), build the desired map, cancel
\* and delete every active query whose key is not desired.
ReconcileRemove(pass) ==
    /\ pass \in pending
    /\ Lockable(lqMu)
    /\ LET desired == DesiredMap(pass.desired)
           gone == (DOMAIN activeQueries) \ (DOMAIN desired)
       IN /\ Cardinality((DOMAIN desired) \ (DOMAIN activeQueries))
                <= Cardinality(FreeSlots)
          /\ wRunCancelled' =
                [w \in Workers |->
                    \/ wRunCancelled[w]
                    \/ \E k \in gone : CancelReaches(activeQueries[k], w)]
          /\ activeQueries' = [k \in (DOMAIN activeQueries) \ gone |-> activeQueries[k]]
    /\ lqMu' = "reconcile"
    /\ lqDesired' = pass.desired
    /\ pending' = pending \ {pass}
    /\ inOrder' = (inOrder /\ \A q \in pending : q.id >= pass.id)
    /\ UNCHANGED notLqVars
    /\ UNCHANGED <<mCancelled, wTable, wPc, wAttempts, numCalls, lqErr, stopReturned,
                   lastDesired, wOnlyStream>>

\* The goroutine slots the pass gives to the keys it starts goroutines for.
RECURSIVE Assign(_, _)
Assign(keys, slots) ==
    IF keys = {} THEN EmptyMap
    ELSE LET k == CHOOSE x \in keys : \A y \in keys : LexLeq(x, y)
             w == CHOOSE x \in slots : \A y \in slots : x <= y
         IN MapPut(Assign(keys \ {k}, slots \ {w}), k, w)

\* if _, exists := m.activeQueries[tableKey]; !exists { go m.manageLiveQuery(tableID) }
StartsWorker(k) == k \notin DOMAIN activeQueries

\* reconcileQueries, second part: start a manageLiveQuery goroutine for every
\* desired key that has no active query, then the deferred m.mu.Unlock().
ReconcileStart ==
    /\ lqMu = "reconcile"
    /\ LET desired == DesiredMap(lqDesired)
           new == {k \in DOMAIN desired : StartsWorker(k)}
           slot == Assign(new, FreeSlots)
           started == {slot[k] : k \in new}
           keyOf(w) == CHOOSE k \in new : slot[k] = w
       IN /\ wTable' = [w \in Workers |->
                           IF w \in started THEN desired[keyOf(w)] ELSE wTable[w]]
          /\ wPc' = [w \in Workers |-> IF w \in started THEN "loop" ELSE wPc[w]]
          /\ wOnlyStream' = [w \in Workers |-> w \in started \/ wOnlyStream[w]]
    /\ lqMu' = NoOwner
    /\ lqDesired' = {}
    /\ UNCHANGED notLqVars
    /\ UNCHANGED <<activeQueries, mCancelled, pending, wAttempts, wRunCancelled,
                   numCalls, lqErr, stopReturned, lastDesired, inOrder>>

\* The goroutine returns (defer m.wg.Done()); `why` is "stopped", "exhausted"
\* or "cancelled". Its locals are out of scope from here on.
Returned(w, why) ==
    /\ wPc' = [wPc EXCEPT ![w] = why]
    /\ wAttempts' = [wAttempts EXCEPT ![w] = 0]
    /\ wRunCancelled' = [wRunCancelled EXCEPT ![w] = FALSE]
    /\ wOnlyStream' = [wOnlyStream EXCEPT ![w] = (why = "exhausted" /\ @)]
    /\ wTable' = [wTable EXCEPT ![w] = IF why = "exhausted" THEN @ ELSE NoTable]

\* runLiveQuery, up to the registration: a fresh context, connManager.Get and
\* sdk.Live; either may fail (and does when m.ctx is cancelled). On success
\* the subscription is open and the goroutine goes on to register it.
RunConnect(w) ==
    /\ wRunCancelled' = [wRunCancelled EXCEPT ![w] = FALSE]
    /\ \/ /\ ~mCancelled
          /\ wPc' = [wPc EXCEPT ![w] = "register"]
          /\ UNCHANGED wOnlyStream
       \/ /\ wPc' = [wPc EXCEPT ![w] = "run_err"]
          /\ wOnlyStream' = [wOnlyStream EXCEPT ![w] = FALSE]

\* manageLiveQuery, top of the loop: return when m.ctx is done; count the
\* attempt; return when the attempts exceed the maximum; before every attempt
\* but the first wait the reconnect delay; the first attempt goes straight
\* into runLiveQuery.
ManageLoop(w) ==
    /\ wPc[w] = "loop"
    /\ IF mCancelled
       THEN Returned(w, "stopped")
       ELSE IF wAttempts[w] + 1 > maxReconnectAttempts
       THEN Returned(w, "exhausted")
       ELSE IF wAttempts[w] + 1 > 1
       THEN /\ wAttempts' = [wAttempts EXCEPT ![w] = @ + 1]
            /\ wPc' = [wPc EXCEPT ![w] = "delay"]
            /\ UNCHANGED <<wRunCancelled, wOnlyStream, wTable>>
       ELSE /\ wAttempts' = [wAttempts EXCEPT ![w] = @ + 1]
            /\ RunConnect(w)
            /\ UNCHANGED wTable
    /\ UNCHANGED notLqVars
    /\ UNCHANGED <<activeQueries, lqMu, lqDesired, mCancelled, pending,
                   numCalls, lqErr, stopReturned, lastDesired, inOrder>>

\* select { case <-m.ctx.Done(): return; case <-time.After(m.reconnectDelay): }
\* and, after the delay, runLiveQuery.
ManageDelay(w) ==
    /\ wPc[w] = "delay"
    /\ \/ /\ mCancelled
          /\ Returned(w, "stopped")
       \/ /\ RunConnect(w)
          /\ UNCHANGED <<wAttempts, wTable>>
    /\ UNCHANGED notLqVars
    /\ UNCHANGED <<activeQueries, lqMu, lqDesired, mCancelled, pending,
                   numCalls, lqErr, stopReturned, lastDesired, inOrder>>

\* m.mu.Lock(); m.activeQueries[tableID.String()] = &liveQueryState{...}; m.mu.Unlock()
RunRegister(w) ==
    /\ wPc[w] = "register"
    /\ Lockable(lqMu)
    /\ activeQueries' = MapPut(activeQueries, TableString(wTable[w]),
                               [tableID |-> wTable[w], worker |-> w,
                                run |-> wAttempts[w]])
    /\ wPc' = [wPc EXCEPT ![w] = "read"]
    /\ UNCHANGED notLqVars
    /\ UNCHANGED <<lqMu, lqDesired, mCancelled, pending, wTable, wAttempts,
                   wRunCancelled, numCalls, lqErr, stopReturned, lastDesired, inOrder,
                   wOnlyStream>>

\* The stream of the registered subscription fails: LiveNotifications returns
\* an error or a nil channel, or the channel is closed. runLiveQuery returns
\* the error.
RunStreamFails(w) ==
    /\ wPc[w] = "read"
    /\ wPc' = [wPc EXCEPT ![w] = "run_err"]
    /\ UNCHANGED notLqVars
    /\ UNCHANGED <<activeQueries, lqMu, lqDesired, mCancelled, pending, wTable,
                   wAttempts, wRunCancelled, numCalls, lqErr, stopReturned, lastDesired,
                   inOrder, wOnlyStream>>

\* The context of w's run is done when only its own cancel can end it.
CtxDone_OwnCancel(w) == wRunCancelled[w]

\* The context of w's run, context.WithCancel(m.ctx), is done: its cancel
\* was called, or m.ctx is cancelled.
CtxDone(w) == wRunCancelled[w] \/ mCancelled

\* case <-ctx.Done(): return nil
RunCtxDone(w) ==
    /\ wPc[w] = "read"
    /\ CtxDone(w)
    /\ wPc' = [wPc EXCEPT ![w] = "run_ok"]
    /\ UNCHANGED notLqVars
    /\ UNCHANGED <<activeQueries, lqMu, lqDesired, mCancelled, pending, wTable,
                   wAttempts, wRunCancelled, numCalls, lqErr, stopReturned, lastDesired,
                   inOrder, wOnlyStream>>

\* runLiveQuery returned an error: with m.ctx cancelled delete the key under
\* the lock and return, otherwise continue with the next attempt.
ManageAfterError(w) ==
    /\ wPc[w] = "run_err"
    /\ IF mCancelled
       THEN /\ Lockable(lqMu)
            /\ activeQueries' = MapDelete(activeQueries, TableString(wTable[w]))
            /\ Returned(w, "stopped")
       ELSE /\ wPc' = [wPc EXCEPT ![w] = "loop"]
            /\ UNCHANGED <<activeQueries, wAttempts, wRunCancelled, wTable,
                           wOnlyStream>>
    /\ UNCHANGED notLqVars
    /\ UNCHANGED <<lqMu, lqDesired, mCancelled, pending, numCalls, lqErr, stopReturned, lastDesired,
                   inOrder>>

\* runLiveQuery returned nil: delete the key under the lock and return.
ManageAfterNil(w) ==
    /\ wPc[w] = "run_ok"
    /\ Lockable(lqMu)
    /\ activeQueries' = MapDelete(activeQueries, TableString(wTable[w]))
    /\ Returned(w, "cancelled")
    /\ UNCHANGED notLqVars
    /\ UNCHANGED <<lqMu, lqDesired, mCancelled, pending, numCalls, lqErr, stopReturned, lastDesired,
                   inOrder>>

\* The steps of the manager's goroutines and of Stop.
LQSteps ==
    \/ Stop
    \/ StopReturns
    \/ \E pass \in pending : ReconcileRemove(pass)
    \/ ReconcileStart
    \/ \E w \in Workers : ManageLoop(w)
    \/ \E w \in Workers : ManageDelay(w)
    \/ \E w \in Workers : RunRegister(w)
    \/ \E w \in Workers : RunStreamFails(w)
    \/ \E w \in Workers : RunCtxDone(w)
    \/ \E w \in Workers : ManageAfterError(w)
    \/ \E w \in Workers : ManageAfterNil(w)

NextLQ ==
    \/ \E d \in DesiredLists : LiveQueryInfo(d)
    \/ LQSteps

\* The manager over one scrape more: enough for a table to be monitored,
\* removed and added again.
NextLQReadd ==
    \/ \E d \in DesiredLists : LiveQueryInfoWithin(d, MaxReaddScrapes)
    \/ LQSteps

----------------------------------------------------------------------------
(* ConnectionManager: singleConnectionManager and multiConnectionManager *)

commonConnectionKey == <<"_", "_", "c", "o", "m", "m", "o", "n", "_", "_">>

\* The empty string and the nil session.
Empty == <<>>
Nil == 0
ErrMismatch == "namespace and database must both be provided or both be empty"

\* The goroutines calling Get and the arguments they call it with.
Callers == {"g1", "g2", "g3"}
Namespaces == {Empty, <<"n">>}
Databases == {Empty, <<"d">>, <<"e">>}

NoArgs == [ns |-> Empty, db |-> Empty]
NoResult == [conn |-> Nil, err |-> ErrNil, path |-> "none"]

NewConnectionManagers ==
    /\ dbConnManager = "nil"
    /\ sessions = <<>>
    /\ sConn = Nil
    /\ lastNS = Empty
    /\ lastDB = Empty
    /\ sMu = NoOwner
    /\ connections = EmptyMap
    /\ creating = EmptyMap
    /\ gPc = [c \in Callers |-> "idle"]
    /\ gArgs = [c \in Callers |-> NoArgs]
    /\ gResult = [c \in Callers |-> NoResult]
    /\ numGets = 0
    /\ gWaited = [c \in Callers |-> FALSE]

\* dbConnManager = surrealdb.NewSingleConnectionManager(cfg)
NewSingleConnectionManager ==
    /\ dbConnManager = "nil"
    /\ dbConnManager' = "single"
    /\ UNCHANGED <<sessions, sConn, lastNS, lastDB, sMu, connections, creating,
                   gPc, gArgs, gResult, numGets, gWaited>>
    /\ UNCHANGED notPoolVars

\* dbConnManager = surrealdb.NewMultiConnectionManager(cfg)
NewMultiConnectionManager ==
    /\ dbConnManager = "nil"
    /\ dbConnManager' = "multi"
    /\ UNCHANGED <<sessions, sConn, lastNS, lastDB, sMu, connections, creating,
                   gPc, gArgs, gResult, numGets, gWaited>>
    /\ UNCHANGED notPoolVars

\* createConnection(ctx, cfg, ns, db): the error it returns. The connect, the
\* sign-in and the authentication may fail, and so may the scope switch, which
\* is made only when ns and db are both non-empty.
CreateErrors(ns, db) ==
    {ErrNil, "connect", "sign in", "authenticate"}
        \cup (IF ns # Empty /\ db # Empty THEN {"use"} ELSE {})

\* The session a successful createConnection returns: its scope is (ns, db)
\* when both are non-empty, and unset otherwise.
NewSession(ns, db) ==
    [createdFor |-> <<ns, db>>,
     scope |-> IF ns # Empty /\ db # Empty THEN <<ns, db>> ELSE <<Empty, Empty>>,
     uses |-> IF ns # Empty /\ db # Empty THEN 1 ELSE 0]

\* conn.Use(ctx, ns, db) on session id
UseScope(ss, id, ns, db) ==
    [ss EXCEPT ![id].scope = <<ns, db>>, ![id].uses = @ + 1]

\* Every goroutine waiting for the mutex the failing creator holds.
MarkWaiting(waiters) == [c \in Callers |-> gWaited[c] \/ c \in waiters]

\* if (ns == "") != (db == "")
SingleMismatch_Off(ns, db) == FALSE

SingleMismatch(ns, db) == (ns = Empty) # (db = Empty)

\* singleConnectionManager.Get, up to m.mu.Lock()
SingleGet(c, ns, db) ==
    /\ dbConnManager = "single"
    /\ gPc[c] = "idle"
    /\ numGets < MaxGets
    /\ numGets' = numGets + 1
    /\ gArgs' = [gArgs EXCEPT ![c] = [ns |-> ns, db |-> db]]
    /\ gWaited' = [gWaited EXCEPT ![c] = FALSE]
    /\ IF SingleMismatch(ns, db)
       THEN /\ gPc' = [gPc EXCEPT ![c] = "returned"]
            /\ gResult' = [gResult EXCEPT ![c] =
                              [conn |-> Nil, err |-> ErrMismatch, path |-> "none"]]
       ELSE /\ gPc' = [gPc EXCEPT ![c] = "s_lock"]
            /\ gResult' = [gResult EXCEPT ![c] = NoResult]
    /\ UNCHANGED <<dbConnManager, sessions, sConn, lastNS, lastDB, sMu,
                   connections, creating>>
    /\ UNCHANGED notPoolVars

\* m.mu.Lock(); if m.conn == nil { conn, err := createConnection(...);
\* if err != nil { return nil, err }; m.conn = conn }
SingleLockCreate(c) ==
    /\ gPc[c] = "s_lock"
    /\ sMu = NoOwner
    /\ IF sConn = Nil
       THEN \E err \in CreateErrors(gArgs[c].ns, gArgs[c].db) :
              IF err # ErrNil
              THEN /\ gPc' = [gPc EXCEPT ![c] = "returned"]
                   /\ gResult' = [gResult EXCEPT ![c] =
                                     [conn |-> Nil, err |-> err, path |-> "none"]]
                   /\ gWaited' = MarkWaiting({x \in Callers \ {c} :
                                                 gPc[x] = "s_lock"})
                   /\ UNCHANGED <<sessions, sConn, sMu>>
              ELSE /\ sessions' = Append(sessions,
                                         NewSession(gArgs[c].ns, gArgs[c].db))
                   /\ sConn' = Len(sessions) + 1
                   /\ sMu' = c
                   /\ gPc' = [gPc EXCEPT ![c] = "s_use"]
                   /\ gResult' = [gResult EXCEPT ![c].path = "created"]
                   /\ UNCHANGED gWaited
       ELSE /\ sMu' = c
            /\ gPc' = [gPc EXCEPT ![c] = "s_use"]
            /\ gResult' = [gResult EXCEPT ![c].path = "cached"]
            /\ UNCHANGED <<sessions, sConn, gWaited>>
    /\ UNCHANGED <<dbConnManager, lastNS, lastDB, connections, creating, gArgs,
                   numGets>>
    /\ UNCHANGED notPoolVars

\* The scope switched to on every Get with a non-empty scope.
NeedsUse_Always(ns, db) == ns # Empty

\* if ns != "" && (ns != m.lastNS || db != m.lastDB)
NeedsUse(ns, db) == ns # Empty /\ (ns # lastNS \/ db # lastDB)

\* if ns != "" && (ns != m.lastNS || db != m.lastDB) { m.conn.Use(...) ... };
\* return m.conn, nil (and the deferred m.mu.Unlock()). A failed Use was
\* issued all the same.
SingleUse(c) ==
    /\ gPc[c] = "s_use"
    /\ sMu = c
    /\ LET ns == gArgs[c].ns
           db == gArgs[c].db
       IN IF NeedsUse(ns, db)
          THEN \/ /\ sessions' = UseScope(sessions, sConn, ns, db)
                  /\ lastNS' = ns
                  /\ lastDB' = db
                  /\ gResult' = [gResult EXCEPT ![c].conn = sConn]
               \/ /\ gResult' = [gResult EXCEPT ![c] =
                                    [conn |-> Nil, err |-> "use", path |-> "none"]]
                  /\ sessions' = [sessions EXCEPT ![sConn].uses = @ + 1]
                  /\ UNCHANGED <<lastNS, lastDB>>
          ELSE /\ gResult' = [gResult EXCEPT ![c].conn = sConn]
               /\ UNCHANGED <<sessions, lastNS, lastDB>>
    /\ sMu' = NoOwner
    /\ gPc' = [gPc EXCEPT ![c] = "returned"]
    /\ UNCHANGED <<dbConnManager, sConn, connections, creating, gArgs, numGets,
                   gWaited>>
    /\ UNCHANGED notPoolVars

\* if (ns == "" && db != "") || (ns != "" && db == "")
MultiMismatch(ns, db) ==
    \/ ns = Empty /\ db # Empty
    \/ ns # Empty /\ db = Empty

\* The key Get passes to getOrCreate.
ConnectionKey(ns, db) ==
    IF ns # Empty THEN ns \o Colon \o db ELSE commonConnectionKey

KeyOf(c) == ConnectionKey(gArgs[c].ns, gArgs[c].db)

\* multiConnectionManager.Get
MultiGet(c, ns, db) ==
    /\ dbConnManager = "multi"
    /\ gPc[c] = "idle"
    /\ numGets < MaxGets
    /\ numGets' = numGets + 1
    /\ gArgs' = [gArgs EXCEPT ![c] = [ns |-> ns, db |-> db]]
    /\ gWaited' = [gWaited EXCEPT ![c] = FALSE]
    /\ IF MultiMismatch(ns, db)
       THEN /\ gPc' = [gPc EXCEPT ![c] = "returned"]
            /\ gResult' = [gResult EXCEPT ![c] =
                              [conn |-> Nil, err |-> ErrMismatch, path |-> "none"]]
       ELSE /\ gPc' = [gPc EXCEPT ![c] = "m_load"]
            /\ gResult' = [gResult EXCEPT ![c] = NoResult]
    /\ UNCHANGED <<dbConnManager, sessions, sConn, lastNS, lastDB, sMu,
                   connections, creating>>
    /\ UNCHANGED notPoolVars

\* getOrCreate: if conn, ok := m.connections.Load(key); ok { return conn, nil }
MultiLoad(c) ==
    /\ gPc[c] = "m_load"
    /\ IF KeyOf(c) \in DOMAIN connections
       THEN /\ gPc' = [gPc EXCEPT ![c] = "returned"]
            /\ gResult' = [gResult EXCEPT ![c] =
                              [conn |-> connections[KeyOf(c)], err |-> ErrNil,
                               path |-> "cached"]]
       ELSE /\ gPc' = [gPc EXCEPT ![c] = "m_loadorstore"]
            /\ UNCHANGED gResult
    /\ UNCHANGED <<dbConnManager, sessions, sConn, lastNS, lastDB, sMu,
                   connections, creating, gArgs, numGets, gWaited>>
    /\ UNCHANGED notPoolVars

\* mutexInterface, _ := m.creating.LoadOrStore(key, &sync.Mutex{})
MultiLoadOrStore(c) ==
    /\ gPc[c] = "m_loadorstore"
    /\ creating' = IF KeyOf(c) \in DOMAIN creating THEN creating
                   ELSE MapPut(creating, KeyOf(c), NoOwner)
    /\ gPc' = [gPc EXCEPT ![c] = "m_lock"]
    /\ UNCHANGED <<dbConnManager, sessions, sConn, lastNS, lastDB, sMu,
                   connections, gArgs, gResult, numGets, gWaited>>
    /\ UNCHANGED notPoolVars

\* One mutex for every key: the lock is taken only when no creation is in
\* flight at all.
MultiLock_Global(c) ==
    /\ gPc[c] = "m_lock"
    /\ \A k \in DOMAIN creating : creating[k] = NoOwner
    /\ creating' = [creating EXCEPT ![KeyOf(c)] = c]
    /\ gPc' = [gPc EXCEPT ![c] = "m_load2"]
    /\ UNCHANGED <<dbConnManager, sessions, sConn, lastNS, lastDB, sMu,
                   connections, gArgs, gResult, numGets, gWaited>>
    /\ UNCHANGED notPoolVars

\* mutex.Lock()
MultiLock(c) ==
    /\ gPc[c] = "m_lock"
    /\ creating[KeyOf(c)] = NoOwner
    /\ creating' = [creating EXCEPT ![KeyOf(c)] = c]
    /\ gPc' = [gPc EXCEPT ![c] = "m_load2"]
    /\ UNCHANGED <<dbConnManager, sessions, sConn, lastNS, lastDB, sMu,
                   connections, gArgs, gResult, numGets, gWaited>>
    /\ UNCHANGED notPoolVars

\* the second m.connections.Load(key), under the mutex
SecondLoad_Skipped(key) == FALSE

SecondLoad(key) == key \in DOMAIN connections

\* if conn, ok := m.connections.Load(key); ok { return conn, nil } (and the
\* deferred mutex.Unlock())
MultiLoadAgain(c) ==
    /\ gPc[c] = "m_load2"
    /\ IF SecondLoad(KeyOf(c))
       THEN /\ gPc' = [gPc EXCEPT ![c] = "returned"]
            /\ gResult' = [gResult EXCEPT ![c] =
                              [conn |-> connections[KeyOf(c)], err |-> ErrNil,
                               path |-> "rechecked"]]
            /\ creating' = [creating EXCEPT ![KeyOf(c)] = NoOwner]
       ELSE /\ gPc' = [gPc EXCEPT ![c] = "m_create"]
            /\ UNCHANGED <<gResult, creating>>
    /\ UNCHANGED <<dbConnManager, sessions, sConn, lastNS, lastDB, sMu,
                   connections, gArgs, numGets, gWaited>>
    /\ UNCHANGED notPoolVars

\* if err != nil { return nil, err }; m.connections.Store(key, newConn)
StoreCreated_Always(conns, key, newConn, err) == MapPut(conns, key, newConn)

\* The pool keeps the newest session only.
StoreCreated_Fresh(conns, key, newConn, err) ==
    IF err # ErrNil THEN conns ELSE MapPut(EmptyMap, key, newConn)

StoreCreated(conns, key, newConn, err) ==
    IF err # ErrNil THEN conns ELSE MapPut(conns, key, newConn)

\* newConn, err := createConnection(ctx, m.cfg, ns, db); ...; return (and the
\* deferred mutex.Unlock())
MultiCreate(c) ==
    /\ gPc[c] = "m_create"
    /\ \E err \in CreateErrors(gArgs[c].ns, gArgs[c].db) :
         LET newConn == IF err = ErrNil THEN Len(sessions) + 1 ELSE Nil
         IN /\ sessions' = IF err = ErrNil
                           THEN Append(sessions,
                                       NewSession(gArgs[c].ns, gArgs[c].db))
                           ELSE sessions
            /\ connections' = StoreCreated(connections, KeyOf(c), newConn, err)
            /\ gResult' = [gResult EXCEPT ![c] =
                              [conn |-> newConn, err |-> err,
                               path |-> IF err = ErrNil THEN "created"
                                        ELSE "none"]]
            /\ gWaited' = IF err = ErrNil THEN gWaited
                          ELSE MarkWaiting({x \in Callers \ {c} :
                                   gPc[x] = "m_lock" /\ KeyOf(x) = KeyOf(c)})
    /\ creating' = [creating EXCEPT ![KeyOf(c)] = NoOwner]
    /\ gPc' = [gPc EXCEPT ![c] = "returned"]
    /\ UNCHANGED <<dbConnManager, sConn, lastNS, lastDB, sMu, gArgs, numGets>>
    /\ UNCHANGED notPoolVars

\* The caller uses what Get returned: on an error it gives up, on a session
\* it runs its operation on it (queryStatsTable: sdk.Query on db).
AfterGet(c) ==
    /\ gPc[c] = "returned"
    /\ gPc' = [gPc EXCEPT ![c] = "idle"]
    /\ gArgs' = [gArgs EXCEPT ![c] = NoArgs]
    /\ gResult' = [gResult EXCEPT ![c] = NoResult]
    /\ gWaited' = [gWaited EXCEPT ![c] = FALSE]
    /\ UNCHANGED <<dbConnManager, sessions, sConn, lastNS, lastDB, sMu,
                   connections, creating, numGets>>
    /\ UNCHANGED notPoolVars

NextPool ==
    \/ NewSingleConnectionManager
    \/ NewMultiConnectionManager
    \/ \E c \in Callers : \E ns \in Namespaces : \E db \in Databases :
          SingleGet(c, ns, db)
    \/ \E c \in Callers : SingleLockCreate(c)
    \/ \E c \in Callers : SingleUse(c)
    \/ \E c \in Callers : \E ns \in Namespaces : \E db \in Databases :
          MultiGet(c, ns, db)
    \/ \E c \in Callers : MultiLoad(c)
    \/ \E c \in Callers : MultiLoadOrStore(c)
    \/ \E c \in Callers : MultiLock(c)
    \/ \E c \in Callers : MultiLoadAgain(c)
    \/ \E c \in Callers : MultiCreate(c)
    \/ \E c \in Callers : AfterGet(c)

----------------------------------------------------------------------------
(* tableFilter *)

\* The glob patterns of the configuration and the tables of the database
\* (patterns are made of literal characters, * and ?).
Patterns == {<<"n", ":", "d", ":", "a">>, <<"n", ":", "d", ":", "*">>,
             <<"*", "b">>, <<"n", ":", "?", ":", "?">>}
TableInfos == {[Name |-> <<"a">>, Database |-> <<"d">>, Namespace |-> <<"n">>],
               [Name |-> <<"b">>, Database |-> <<"d">>, Namespace |-> <<"n">>],
               [Name |-> <<"b">>, Database |-> <<"e">>, Namespace |-> <<"n">>]}

RECURSIVE SeqsUpTo(_, _)
SeqsUpTo(S, n) ==
    IF n = 0 THEN {<<>>}
    ELSE LET shorter == SeqsUpTo(S, n - 1)
         IN shorter \cup {Append(q, x) : q \in shorter, x \in S}

\* filepath.Match(pattern, name) for patterns of literals, * and ?: * matches
\* any sequence of characters, ? any single character.
RECURSIVE Match(_, _)
Match(pattern, name) ==
    IF pattern = <<>> THEN name = <<>>
    ELSE IF Head(pattern) = "*"
    THEN \/ Match(Tail(pattern), name)
         \/ name # <<>> /\ Match(pattern, Tail(name))
    ELSE IF name = <<>> THEN FALSE
    ELSE IF Head(pattern) = "?" THEN Match(Tail(pattern), Tail(name))
    ELSE Head(pattern) = Head(name) /\ Match(Tail(pattern), Tail(name))

\* matchesPattern(identifier, pattern)
matchesPattern(identifier, pattern) == Match(pattern, identifier)

\* for _, pattern := range patterns { if matchesPattern(identifier, pattern) {...} }
RECURSIVE FirstMatch(_, _)
FirstMatch(identifier, patterns) ==
    IF patterns = <<>> THEN FALSE
    ELSE IF matchesPattern(identifier, Head(patterns)) THEN TRUE
    ELSE FirstMatch(identifier, Tail(patterns))

\* NewTableFilter(includePatterns, excludePatterns)
TableFilter(includePatterns, excludePatterns) ==
    [includePatterns |-> includePatterns,
     excludePatterns |-> excludePatterns,
     hasIncludes |-> Len(includePatterns) > 0]

NoFilter == TableFilter(<<>>, <<>>)

\* main's tableFilter before engine.NewTableFilter is called
NoTableFilter ==
    /\ fMade = FALSE
    /\ fFilter = NoFilter
    /\ fCalled = FALSE
    /\ fTables = <<>>
    /\ fFiltered = <<>>

NewTableFilter(includePatterns, excludePatterns) ==
    /\ ~fMade
    /\ fMade' = TRUE
    /\ fFilter' = TableFilter(includePatterns, excludePatterns)
    /\ UNCHANGED <<fCalled, fTables, fFiltered>>
    /\ UNCHANGED notFilterVars

\* shouldMonitor with the include patterns consulted before the exclude ones
shouldMonitor_IncludeFirst(f, tableID) ==
    LET identifier == TableString(tableID)
    IN IF ~f.hasIncludes /\ Len(f.excludePatterns) = 0 THEN TRUE
       ELSE IF f.hasIncludes /\ FirstMatch(identifier, f.includePatterns) THEN TRUE
       ELSE IF FirstMatch(identifier, f.excludePatterns) THEN FALSE
       ELSE ~f.hasIncludes

\* tableFilter.shouldMonitor
shouldMonitor(f, tableID) ==
    LET identifier == TableString(tableID)
    IN IF ~f.hasIncludes /\ Len(f.excludePatterns) = 0 THEN TRUE
       ELSE IF FirstMatch(identifier, f.excludePatterns) THEN FALSE
       ELSE IF f.hasIncludes
       THEN IF FirstMatch(identifier, f.includePatterns) THEN TRUE ELSE FALSE
       ELSE TRUE

\* tableFilter.FilterTables: the loop over tables, appending to filtered
RECURSIVE FilterLoop(_, _, _)
FilterLoop(f, tables, filtered) ==
    IF tables = <<>> THEN filtered
    ELSE LET table == Head(tables)
             tableID == TableIdentifier(table.Namespace, table.Database,
                                        table.Name)
         IN FilterLoop(f, Tail(tables),
                       IF shouldMonitor(f, tableID)
                       THEN Append(filtered, tableID) ELSE filtered)

\* (applied once to each filter constructed: a call depends on nothing but the
\* filter and its argument)
FilterTables(tables) ==
    /\ fMade
    /\ ~fCalled
    /\ fCalled' = TRUE
    /\ fTables' = tables
    /\ fFiltered' = FilterLoop(fFilter, tables, <<>>)
    /\ UNCHANGED <<fMade, fFilter>>
    /\ UNCHANGED notFilterVars

NextFilter ==
    \/ /\ ~fMade
       /\ \E inc \in SeqsUpTo(Patterns, MaxPatterns) :
             \E exc \in SeqsUpTo(Patterns, MaxPatterns) : NewTableFilter(inc, exc)
    \/ /\ fMade /\ ~fCalled
       /\ \E tables \in SeqsUpTo(TableInfos, MaxTables) : FilterTables(tables)

----------------------------------------------------------------------------
(* OperationTypeDetector *)

\* The notification results the detector is given: nil, a value that is no
\* map, or a record: a map from field names to values, of which only the
\* kind matters (a map[string]any, a []any, or anything else, a scalar).
FieldNames == {"id", "in", "out", "a", "b", "c", "d", "e"}
ValueKinds == {"scalar", "map", "array"}
MapRecords == UNION {[S -> ValueKinds] : S \in SUBSET FieldNames}
DetectInputs ==
    {[kind |-> "nil", fields |-> EmptyMap], [kind |-> "other", fields |-> EmptyMap]}
        \cup {[kind |-> "map", fields |-> r] : r \in MapRecords}

NewOperationTypeDetector ==
    /\ dCalled = FALSE
    /\ dInput = [kind |-> "nil", fields |-> EmptyMap]
    /\ dType = OperationTypeUnknown

\* isGraphRecord: hasIn && hasOut
isGraphRecord(record) ==
    LET hasIn == \E key \in DOMAIN record : key = "in"
        hasOut == \E key \in DOMAIN record : key = "out"
    IN hasIn /\ hasOut

\* isKeyValueRecord with the field count limited to one
isKeyValueRecord_OneField(record) ==
    LET fieldCount == Cardinality({key \in DOMAIN record : key # "id"})
    IN fieldCount <= 1 /\ fieldCount > 0

\* isKeyValueRecord: fieldCount <= 2 && fieldCount > 0
isKeyValueRecord(record) ==
    LET fieldCount == Cardinality({key \in DOMAIN record : key # "id"})
    IN fieldCount <= 2 /\ fieldCount > 0

\* isRelationalRecord tolerating no nested value
isRelationalRecord_NoNested(record) ==
    LET counted == {key \in DOMAIN record : key # "id"}
        complexCount ==
            Cardinality({key \in counted : record[key] \in {"map", "array"}})
        scalarCount ==
            Cardinality({key \in counted : record[key] \notin {"map", "array"}})
    IN scalarCount >= 3 /\ complexCount = 0

\* isRelationalRecord: scalarCount >= 3 && complexCount <= 1
isRelationalRecord(record) ==
    LET counted == {key \in DOMAIN record : key # "id"}
        complexCount ==
            Cardinality({key \in counted : record[key] \in {"map", "array"}})
        scalarCount ==
            Cardinality({key \in counted : record[key] \notin {"map", "array"}})
    IN scalarCount >= 3 /\ complexCount <= 1

\* OperationTypeDetector.DetectFromRecord
DetectFromRecord(record) ==
    IF record.kind = "nil" THEN OperationTypeUnknown
    ELSE IF record.kind # "map" THEN OperationTypeUnknown
    ELSE IF isGraphRecord(record.fields) THEN OperationTypeGraph
    ELSE IF isKeyValueRecord(record.fields) THEN OperationTypeKeyValue
    ELSE IF isRelationalRecord(record.fields) THEN OperationTypeRelational
    ELSE OperationTypeDocument

\* One call of the detector (processNotification: opType =
\* m.detector.DetectFromRecord(res)).
Detect(record) ==
    /\ dCalled' = TRUE
    /\ dInput' = record
    /\ dType' = DetectFromRecord(record)
    /\ UNCHANGED notDetectVars

NextDetect ==
    /\ ~dCalled
    /\ \E record \in DetectInputs : Detect(record)

----------------------------------------------------------------------------
(* LiveQueryManager.processNotification *)

\* sconn.Notification.Action: the three actions of the switch and another.
NotificationActions == {"CreateAction", "UpdateAction", "DeleteAction", "KILLED"}
\* notification.Result: nil, a value that is no map, a map (a record with
\* three scalar fields besides its identifier).
NotificationResults ==
    {[kind |-> "nil", fields |-> EmptyMap],
     [kind |-> "other", fields |-> EmptyMap],
     [kind |-> "map", fields |-> [k \in {"id", "a", "b", "c"} |-> "scalar"]]}
Notifications == [Action : NotificationActions, Result : NotificationResults]

NoNotification ==
    /\ pnLast = [p \in Recorders |->
                    [call |-> 0, table |-> NoTable,
                     notification |-> [Action |-> "none",
                                       Result |-> [kind |-> "nil", fields |-> EmptyMap]],
                     action |-> ActionUnknown]]
    /\ numNotifs = 0

\* switch notification.Action { case sconn.CreateAction: ... default: ... }
ActionOf(a) ==
    CASE a = "CreateAction" -> ActionCreate
      [] a = "UpdateAction" -> ActionUpdate
      [] a = "DeleteAction" -> ActionDelete
      [] OTHER -> ActionUnknown

\* The default case of the switch goes on to the classification and to Record.
ReturnsEarly_Never(action) == FALSE

\* The default case of the switch: slog.Warn("Unknown action type"); return
ReturnsEarly(action) == action = ActionUnknown

\* Every result is counted as relational.
OpTypeOf_Relational(result) == OperationTypeRelational

\* opType := OperationTypeUnknown; switch res := notification.Result.(type)
\* { case map[string]any: opType = m.detector.DetectFromRecord(res) ... }
OpTypeOf(result) ==
    IF result.kind = "map" THEN DetectFromRecord(result) ELSE OperationTypeUnknown

\* processNotification(tableID, notification), up to Record's a.mu.Lock().
ProcessNotification(p, tableID, notification) ==
    /\ accPc[p] = "idle"
    /\ numNotifs < MaxNotifs
    /\ numNotifs' = numNotifs + 1
    /\ LET action == ActionOf(notification.Action)
       IN /\ pnLast' = [pnLast EXCEPT ![p] =
                           [call |-> numNotifs + 1, table |-> tableID,
                            notification |-> notification, action |-> action]]
          /\ IF ReturnsEarly(action)
             THEN UNCHANGED accVars
             ELSE RecordEnter(p, tableID, OpTypeOf(notification.Result), action)
    /\ UNCHANGED notAccNotifVars

\* The workers' notifications and their Record calls.
NextNotify ==
    \/ \E p \in Recorders, t \in AccTables, n \in Notifications :
          ProcessNotification(p, t, n)
    \/ \E p \in Recorders : RecordLookup(p)
    \/ \E p \in Recorders : RecordReturn(p)

----------------------------------------------------------------------------
(* The events createStatsTable defines on a monitored table *)

\* The field values of a stored record, as far as the events' expression and
\* the detector tell them apart: a scalar that is falsy (0, "", false, NULL)
\* or truthy, a non-empty object, an array of zero, one or two scalars.
StoredValues == {"falsy", "scalar", "map", "array0", "array1", "array2"}
\* The fields besides the identifier, which every stored record has.
StoredFields == {"in", "out", "a", "b", "c", "d"}
StoredRecords ==
    {[k \in (DOMAIN r) \cup {"id"} |-> IF k = "id" THEN "scalar" ELSE r[k]] :
        r \in UNION {[S -> StoredValues] : S \in SUBSET StoredFields}}

NoEvent ==
    /\ tRecord = [id |-> "scalar"]
    /\ tOpType = "none"

\* $after.f in a condition: a missing field is NONE; NONE, NULL, false, 0,
\* the empty string and the empty array are falsy.
Truthy(record, f) ==
    f \in DOMAIN record /\ record[f] \notin {"falsy", "array0"}

\* The number of elements a value contributes to values().flatten(): an
\* array its elements, any other value itself.
FlattenedLen(v) ==
    CASE v = "array0" -> 0
      [] v = "array2" -> 2
      [] OTHER -> 1

RECURSIVE SumFlattened(_, _)
SumFlattened(record, keys) ==
    IF keys = {} THEN 0
    ELSE LET k == CHOOSE x \in keys : TRUE
         IN FlattenedLen(record[k]) + SumFlattened(record, keys \ {k})

\* LET $op_type = IF $after.in AND $after.out THEN "graph"
\*   ELSE IF $after.keys().len() <= 3 THEN "kv"
\*   ELSE IF $after.values().flatten().len() = $after.values().len()
\*           AND $after.keys().len() >= 4 THEN "relational"
\*   ELSE "document" END
EventOpType(after) ==
    LET keysLen == Cardinality(DOMAIN after)
    IN IF Truthy(after, "in") /\ Truthy(after, "out") THEN "graph"
       ELSE IF keysLen <= 3 THEN "kv"
       ELSE IF SumFlattened(after, DOMAIN after) = keysLen /\ keysLen >= 4
       THEN "relational"
       ELSE "document"

\* The operation kind of the counters $op_type is added to: create_kv,
\* update_kv and delete_kv are StatsTableData's CreateKV, UpdateKV and
\* DeleteKV, and so on.
KindOfColumn(opType) ==
    CASE opType = "graph" -> OperationTypeGraph
      [] opType = "kv" -> OperationTypeKeyValue
      [] opType = "relational" -> OperationTypeRelational
      [] opType = "document" -> OperationTypeDocument
      [] OTHER -> OperationTypeUnknown

\* The notification result the subscription delivers for the record: a
\* map[string]any whose objects are map[string]any and whose arrays are []any.
NotificationResult(record) ==
    [kind |-> "map",
     fields |-> [k \in DOMAIN record |->
                    CASE record[k] = "map" -> "map"
                      [] record[k] \in {"array0", "array1", "array2"} -> "array"
                      [] OTHER -> "scalar"]]

\* A record is written to a monitored table: the table's event computes
\* $op_type for it, and the live subscription delivers it to
\* processNotification, which calls the detector.
RecordWritten(record) ==
    /\ tRecord' = record
    /\ tOpType' = EventOpType(record)
    /\ dCalled' = TRUE
    /\ dInput' = NotificationResult(record)
    /\ dType' = DetectFromRecord(NotificationResult(record))
    /\ UNCHANGED notDetectEventVars

\* One record per behaviour: the classification has no state.
NextEvent ==
    /\ ~dCalled
    /\ \E record \in StoredRecords : RecordWritten(record)

----------------------------------------------------------------------------
(* StatsTableManager *)

\* The tables the manager is asked about and the configured prefix.
StatsTables == {TableIdentifier(<<"n">>, <<"d">>, <<"a">>),
                TableIdentifier(<<"n">>, <<"e">>, <<"a">>)}
StatsDesired == (SUBSET StatsTables) \ {{}}
sideTablePrefix == <<"_">>

EventNames == <<"stats_create", "stats_update", "stats_delete">>
EventSet == {EventNames[i] : i \in 1..Len(EventNames)}

\* getStatsTableName
getStatsTableName(tableName) == sideTablePrefix \o tableName

\* The record <statsTableName>:stats as createStatsTable creates it, with all
\* its counters zero; an event that fires makes it Counted.
ZeroStats == [counters |-> "zero"]
Counted == [counters |-> "counted"]

NoTableKey == <<>>

NewStatsTableManagerState ==
    /\ stMade = FALSE
    /\ removeOrphanTables = FALSE
    /\ activeTables = EmptyMap
    /\ stMu = NoOwner
    /\ dbUp = TRUE
    /\ dbRecords = EmptyMap
    /\ dbEvents = {}
    /\ stPending = {}
    /\ stCalls = 0
    /\ sPc = "idle"
    /\ sDesired = {}
    /\ qPc = [t \in StatsTables |-> "none"]
    /\ qConn = [t \in StatsTables |-> Nil]
    /\ qOut = [t \in StatsTables |-> "none"]
    /\ stResult = <<>>
    /\ stErr = ErrNil
    /\ rPc = "idle"
    /\ rDesired = {}
    /\ rKey = NoTableKey
    /\ rConn = Nil
    /\ rIdx = 0
    /\ rWarned = FALSE
    /\ rFailed = EmptyMap
    /\ rTried = {}

\* surrealdb.NewStatsTableManager(dbConnManager, removeOrphanTables, prefix)
NewStatsTableManager(removeOrphans) ==
    /\ ~stMade
    /\ dbConnManager = "multi"
    /\ stMade' = TRUE
    /\ removeOrphanTables' = removeOrphans
    /\ UNCHANGED <<activeTables, rFailed, stMu, dbUp, dbRecords, dbEvents, stPending,
                   stCalls, sPc, sDesired, qPc, qConn, qOut, stResult, stErr,
                   rPc, rDesired, rKey, rConn, rIdx, rWarned,
                   rTried>>
    /\ UNCHANGED notStatsVars

\* The database becomes unreachable, or reachable again: while it is not,
\* every connection attempt, scope switch and query fails.
DatabaseUpDown ==
    /\ stMade
    /\ dbUp' = ~dbUp
    /\ UNCHANGED <<stMade, removeOrphanTables, activeTables, rFailed, stMu, dbRecords,
                   dbEvents, stPending, stCalls, sPc, sDesired, qPc, qConn,
                   qOut, stResult, stErr, rPc, rDesired, rKey, rConn, rIdx, rWarned,
                   rTried>>
    /\ UNCHANGED notStatsVars

\* m.connManager.Get(ctx, ns, db) as one step, returning conn (Nil with an
\* error). The manager main hands to NewStatsTableManager is the
\* multi-session one: the session stored for the key, created and stored
\* when there is none, which fails while the database is unreachable.
ConnGet(ns, db, conn) ==
    LET key == ConnectionKey(ns, db)
    IN IF key \in DOMAIN connections
       THEN /\ conn = connections[key]
            /\ UNCHANGED <<sessions, connections>>
       ELSE IF ~dbUp
       THEN /\ conn = Nil
            /\ UNCHANGED <<sessions, connections>>
       ELSE /\ conn = Len(sessions) + 1
            /\ sessions' = Append(sessions, NewSession(ns, db))
            /\ connections' = StoreCreated(connections, key, conn, ErrNil)

ConnIds == {Nil} \cup (1..(Len(sessions) + 1))

\* The database a query on session conn runs in: the session's current scope.
ScopeOf(conn) == sessions[conn].scope

RecordKey(scope, statsTableName) == <<scope[1], scope[2], statsTableName>>

EventKey(scope, tableName, event) == <<scope[1], scope[2], tableName, event>>

\* StatsTableInfo(tableIDs), first part: queryAllStatsTables starts one
\* goroutine per table. The collector calls it once per scrape, after the
\* call of the scrape before has returned.
StatsTableInfoWithin(tableIDs, maxCalls) ==
    /\ stMade
    /\ sPc \in {"idle", "returned"}
    /\ stCalls < maxCalls
    /\ stCalls' = stCalls + 1
    /\ sPc' = "wait"
    /\ sDesired' = tableIDs
    /\ qPc' = [t \in StatsTables |-> IF t \in tableIDs THEN "get" ELSE "none"]
    /\ qConn' = [t \in StatsTables |-> Nil]
    /\ qOut' = [t \in StatsTables |-> "none"]
    /\ stResult' = <<>>
    /\ stErr' = ErrNil
    /\ UNCHANGED <<stMade, removeOrphanTables, activeTables, rFailed, stMu, dbUp,
                   dbRecords, dbEvents, stPending, rPc, rDesired, rKey, rConn, rIdx, rWarned,
                   rTried>>
    /\ UNCHANGED notStatsVars

StatsTableInfo(tableIDs) == StatsTableInfoWithin(tableIDs, MaxStatsCalls)

\* queryStatsTable: db, err := m.connManager.Get(ctx, ns, db); on an error
\* the goroutine sends it to errChan and is done.
QueryGet(t) ==
    /\ qPc[t] = "get"
    /\ \E conn \in ConnIds :
          /\ ConnGet(t.Namespace, t.Database, conn)
          /\ qConn' = [qConn EXCEPT ![t] = conn]
          /\ IF conn = Nil
             THEN /\ qPc' = [qPc EXCEPT ![t] = "done"]
                  /\ qOut' = [qOut EXCEPT ![t] = "get_failed"]
             ELSE /\ qPc' = [qPc EXCEPT ![t] = "query"]
                  /\ UNCHANGED qOut
    /\ UNCHANGED <<stMade, removeOrphanTables, activeTables, rFailed, stMu, dbUp,
                   dbRecords, dbEvents, stPending, stCalls, sPc, sDesired,
                   stResult, stErr, rPc, rDesired, rKey, rConn, rIdx, rWarned,
                   rTried>>
    /\ UNCHANGED <<dbConnManager, sConn, lastNS, lastDB, sMu, creating, gPc,
                   gArgs, gResult, numGets, gWaited>>
    /\ UNCHANGED notStatsPoolVars

\* What SELECT * FROM <statsTableName> LIMIT 1 comes back with in the
\* session's scope: an error while the database is unreachable; the record;
\* or, when there is none, no row or a non-OK status.
SelectReplies(conn, statsTableName) ==
    IF ~dbUp THEN {"query_failed"}
    ELSE IF RecordKey(ScopeOf(conn), statsTableName) \in DOMAIN dbRecords
    THEN {"row"}
    ELSE {"no_row", "not_ok"}

\* domain.StatsTableData built from the record
StatsTableData(tableID, record) ==
    [Namespace |-> tableID.Namespace, Database |-> tableID.Database,
     Table |-> tableID.Table, Counters |-> record.counters]

\* The goroutine's entry in result whatever the query came back with
AppendedData_Always(t, reply, conn) ==
    <<StatsTableData(t, ZeroStats)>>

\* The goroutine's entry in result: appended only if data != nil
AppendedData(t, reply, conn) ==
    IF reply = "row"
    THEN <<StatsTableData(t,
               dbRecords[RecordKey(ScopeOf(conn), getStatsTableName(t.Table))])>>
    ELSE <<>>

\* queryStatsTable: the query and the checks on its result; then, in the
\* goroutine of queryAllStatsTables, result = append(result, data).
QueryRun(t) ==
    /\ qPc[t] = "query"
    /\ \E reply \in SelectReplies(qConn[t], getStatsTableName(t.Table)) :
          /\ qOut' = [qOut EXCEPT ![t] = reply]
          /\ stResult' = stResult \o AppendedData(t, reply, qConn[t])
    /\ qPc' = [qPc EXCEPT ![t] = "done"]
    /\ qConn' = [qConn EXCEPT ![t] = Nil]
    /\ UNCHANGED <<stMade, removeOrphanTables, activeTables, rFailed, stMu, dbUp,
                   dbRecords, dbEvents, stPending, stCalls, sPc, sDesired,
                   stErr, rPc, rDesired, rKey, rConn, rIdx, rWarned,
                   rTried>>
    /\ UNCHANGED notStatsVars

\* queryAllStatsTables returns (result, nil) after wg.Wait(); StatsTableInfo
\* starts reconcileTables in a goroutine and returns statsData, nil.
StatsTableInfoReturn ==
    /\ sPc = "wait"
    /\ \A t \in sDesired : qPc[t] = "done"
    /\ sPc' = "returned"
    /\ stErr' = ErrNil
    /\ stPending' = stPending \cup {[id |-> stCalls, desired |-> sDesired]}
    /\ UNCHANGED <<stMade, removeOrphanTables, activeTables, rFailed, stMu, dbUp,
                   dbRecords, dbEvents, stCalls, sDesired, qPc, qConn, qOut,
                   stResult, rPc, rDesired, rKey, rConn, rIdx, rWarned,
                   rTried>>
    /\ UNCHANGED notStatsVars

\* reconcileTables: m.mu.Lock() and the desired map
StatsReconcileLock(pass) ==
    /\ pass \in stPending
    /\ Lockable(stMu)
    /\ stMu' = "reconcile"
    /\ stPending' = stPending \ {pass}
    /\ rDesired' = pass.desired
    /\ rTried' = {}
    /\ rPc' = "pick"
    /\ UNCHANGED <<stMade, removeOrphanTables, activeTables, rFailed, dbUp, dbRecords,
                   dbEvents, stCalls, sPc, sDesired, qPc, qConn, qOut,
                   stResult, stErr, rKey, rConn, rIdx, rWarned>>
    /\ UNCHANGED notStatsVars

\* if m.removeOrphanTables
RemovesOrphans_Always == TRUE

RemovesOrphans == removeOrphanTables

\* The active tables the pass has to remove.
Orphans ==
    IF RemovesOrphans
    THEN (DOMAIN activeTables) \ (DOMAIN DesiredMap(rDesired))
    ELSE {}

\* The desired tables the pass has still to create.
ToCreate ==
    ((DOMAIN DesiredMap(rDesired)) \ (DOMAIN activeTables)) \ rTried

\* The pass goes on to its next table.
NextTable ==
    /\ rPc' = "pick"
    /\ rKey' = NoTableKey
    /\ rConn' = Nil
    /\ rIdx' = 0
    /\ rWarned' = FALSE

\* The entry is kept when removeStatsTable returned an error.
ActiveAfterRemoval_KeptOnError(active, k, err) ==
    IF err # ErrNil THEN active ELSE MapDelete(active, k)

\* if err := m.removeStatsTable(state); err != nil { slog.Error(...) };
\* delete(m.activeTables, tableKey)
ActiveAfterRemoval(active, k, err) == MapDelete(active, k)

\* removeStatsTable, up to connManager.Get: when that fails the removal is
\* given up, and reconcileTables deletes the entry all the same.
StatsRemoveGet(k) ==
    /\ rPc = "pick"
    /\ k \in Orphans
    /\ \E conn \in ConnIds :
          /\ ConnGet(activeTables[k].targetTableID.Namespace,
                     activeTables[k].targetTableID.Database, conn)
          /\ IF conn = Nil
             THEN /\ activeTables' = ActiveAfterRemoval(activeTables, k, "get")
                  /\ rFailed' = MapPut(rFailed, k, stCalls)
                  /\ UNCHANGED <<rPc, rKey, rConn, rIdx, rWarned>>
             ELSE /\ rPc' = "rm_events"
                  /\ rKey' = k
                  /\ rConn' = conn
                  /\ UNCHANGED <<rIdx, rWarned>>
                  /\ UNCHANGED <<activeTables, rFailed>>
    /\ UNCHANGED <<stMade, removeOrphanTables, stMu, dbUp, dbRecords, dbEvents,
                   stPending, stCalls, sPc, sDesired, qPc, qConn, qOut,
                   stResult, stErr, rDesired, rTried>>
    /\ UNCHANGED <<dbConnManager, sConn, lastNS, lastDB, sMu, creating, gPc,
                   gArgs, gResult, numGets, gWaited>>
    /\ UNCHANGED notStatsPoolVars

\* The REMOVE EVENT statements left out.
EventsRemoved_None(events, removed) == events

\* REMOVE EVENT <event> ON TABLE <table>, for each of the three events
EventsRemoved(events, removed) == events \ removed

\* removeStatsTable: REMOVE EVENT <event> ON TABLE <table> for the three
\* events; a failure is only logged.
StatsRemoveEvents ==
    /\ rPc = "rm_events"
    /\ dbEvents' =
          IF dbUp
          THEN EventsRemoved(dbEvents,
                             {EventKey(ScopeOf(rConn),
                                       activeTables[rKey].targetTableID.Table, e)
                                : e \in EventSet})
          ELSE dbEvents
    /\ rWarned' = ~dbUp
    /\ rPc' = "rm_delete"
    /\ UNCHANGED <<stMade, removeOrphanTables, activeTables, rFailed, stMu, dbUp,
                   dbRecords, stPending, stCalls, sPc, sDesired, qPc, qConn,
                   qOut, stResult, stErr, rDesired, rKey, rConn, rIdx,
                   rTried>>
    /\ UNCHANGED notStatsVars

\* removeStatsTable: DELETE <statsTableName> (which may fail); then, in
\* reconcileTables, delete(m.activeTables, tableKey).
StatsRemoveDelete ==
    /\ rPc = "rm_delete"
    /\ dbRecords' =
          IF dbUp
          THEN MapDelete(dbRecords,
                         RecordKey(ScopeOf(rConn),
                                   activeTables[rKey].statsTableName))
          ELSE dbRecords
    /\ activeTables' = ActiveAfterRemoval(activeTables, rKey,
                                          IF dbUp THEN ErrNil ELSE "delete")
    /\ rFailed' = IF dbUp THEN rFailed ELSE MapPut(rFailed, rKey, stCalls)
    /\ NextTable
    /\ UNCHANGED <<stMade, removeOrphanTables, stMu, dbUp, dbEvents, stPending,
                   stCalls, sPc, sDesired, qPc, qConn, qOut, stResult, stErr,
                   rDesired, rTried>>
    /\ UNCHANGED notStatsVars

\* createStatsTable, up to connManager.Get: an error makes reconcileTables
\* continue with the next table.
StatsCreateGet(k) ==
    /\ rPc = "pick"
    /\ Orphans = {}
    /\ k \in ToCreate
    /\ \E conn \in ConnIds :
          /\ ConnGet(DesiredMap(rDesired)[k].Namespace,
                     DesiredMap(rDesired)[k].Database, conn)
          /\ IF conn = Nil
             THEN /\ rTried' = rTried \cup {k}
                  /\ UNCHANGED <<rPc, rKey, rConn, rIdx, rWarned>>
             ELSE /\ rPc' = "cr_record"
                  /\ rKey' = k
                  /\ rConn' = conn
                  /\ UNCHANGED <<rIdx, rWarned>>
                  /\ UNCHANGED rTried
    /\ UNCHANGED <<stMade, removeOrphanTables, activeTables, rFailed, stMu, dbUp,
                   dbRecords, dbEvents, stPending, stCalls, sPc, sDesired, qPc,
                   qConn, qOut, stResult, stErr, rDesired>>
    /\ UNCHANGED <<dbConnManager, sConn, lastNS, lastDB, sMu, creating, gPc,
                   gArgs, gResult, numGets, gWaited>>
    /\ UNCHANGED notStatsPoolVars

\* IF !record::exists(<name>:stats) THEN CREATE <name>:stats SET ... = 0
CreateIfAbsent_Reset(records, key) == MapPut(records, key, ZeroStats)

CreateIfAbsent(records, key) ==
    IF key \in DOMAIN records THEN records ELSE MapPut(records, key, ZeroStats)

\* createStatsTable: the conditional CREATE; a failed query or a non-OK
\* status is returned as an error.
StatsCreateRecord ==
    /\ rPc = "cr_record"
    /\ LET tableID == DesiredMap(rDesired)[rKey]
           key == RecordKey(ScopeOf(rConn), getStatsTableName(tableID.Table))
       IN IF dbUp
          THEN /\ dbRecords' = CreateIfAbsent(dbRecords, key)
               /\ rPc' = "cr_event"
               /\ rIdx' = 1
               /\ UNCHANGED <<rKey, rConn, rTried, rWarned>>
          ELSE /\ UNCHANGED dbRecords
               /\ rTried' = rTried \cup {rKey}
               /\ NextTable
    /\ UNCHANGED <<stMade, removeOrphanTables, activeTables, rFailed, stMu, dbUp,
                   dbEvents, stPending, stCalls, sPc, sDesired, qPc, qConn,
                   qOut, stResult, stErr, rDesired>>
    /\ UNCHANGED notStatsVars

\* What DEFINE EVENT comes back with: a failure while the database is
\* unreachable; else OK, or, when the event is already defined on the table,
\* possibly an "already exists" error instead.
DefineReplies(exists) ==
    IF ~dbUp THEN {"failed"}
    ELSE {"OK"} \cup (IF exists THEN {"already exists"} ELSE {})

\* err != nil && !strings.Contains(err.Error(), "already exists") (and the
\* same for a non-OK status)
EventQueryError_Strict(reply) == reply # "OK"

\* The result of the DEFINE EVENT statements not looked at.
EventQueryError_Ignored(reply) == FALSE

EventQueryError(reply) == reply \notin {"OK", "already exists"}

\* createStatsTable: the DEFINE EVENT statements, one after the other, the
\* first error being returned; after the last one reconcileTables stores the
\* table in activeTables.
StatsCreateEvent ==
    /\ rPc = "cr_event"
    /\ LET tableID == DesiredMap(rDesired)[rKey]
           event == EventKey(ScopeOf(rConn), tableID.Table, EventNames[rIdx])
       IN \E reply \in DefineReplies(event \in dbEvents) :
            /\ dbEvents' = IF reply = "OK" THEN dbEvents \cup {event}
                           ELSE dbEvents
            /\ IF EventQueryError(reply)
               THEN /\ rTried' = rTried \cup {rKey}
                    /\ NextTable
                    /\ UNCHANGED <<activeTables, rFailed>>
               ELSE IF rIdx < Len(EventNames)
               THEN /\ rIdx' = rIdx + 1
                    /\ UNCHANGED <<rPc, rKey, rConn, rTried, rWarned, activeTables, rFailed>>
               ELSE /\ activeTables' = MapPut(activeTables, rKey,
                          [targetTableID |-> tableID,
                           statsTableName |-> getStatsTableName(tableID.Table)])
                    /\ rFailed' = MapDelete(rFailed, rKey)
                    /\ NextTable
                    /\ UNCHANGED rTried
    /\ UNCHANGED <<stMade, removeOrphanTables, stMu, dbUp, dbRecords, stPending,
                   stCalls, sPc, sDesired, qPc, qConn, qOut, stResult, stErr,
                   rDesired>>
    /\ UNCHANGED notStatsVars

\* reconcileTables returns: the deferred m.mu.Unlock()
StatsReconcileUnlock ==
    /\ rPc = "pick"
    /\ Orphans = {}
    /\ ToCreate = {}
    /\ stMu' = NoOwner
    /\ rPc' = "idle"
    /\ rDesired' = {}
    /\ rTried' = {}
    /\ UNCHANGED <<stMade, removeOrphanTables, activeTables, rFailed, dbUp, dbRecords,
                   dbEvents, stPending, stCalls, sPc, sDesired, qPc, qConn,
                   qOut, stResult, stErr, rKey, rConn, rIdx, rWarned>>
    /\ UNCHANGED notStatsVars

\* A create, update or delete on a table of the database fires the event
\* defined for it, which adds one to a counter of <statsTableName>:stats.
StatsEventFires(t, e) ==
    /\ EventKey(<<t.Namespace, t.Database>>, t.Table, e) \in dbEvents
    /\ RecordKey(<<t.Namespace, t.Database>>, getStatsTableName(t.Table))
          \in DOMAIN dbRecords
    /\ dbRecords' =
          [dbRecords EXCEPT
              ![RecordKey(<<t.Namespace, t.Database>>,
                          getStatsTableName(t.Table))] = Counted]
    /\ UNCHANGED <<stMade, removeOrphanTables, activeTables, rFailed, stMu, dbUp,
                   dbEvents, stPending, stCalls, sPc, sDesired, qPc, qConn,
                   qOut, stResult, stErr, rPc, rDesired, rKey, rConn, rIdx, rWarned,
                   rTried>>
    /\ UNCHANGED notStatsVars

NextStats ==
    \/ NewMultiConnectionManager
    \/ \E removeOrphans \in BOOLEAN : NewStatsTableManager(removeOrphans)
    \/ DatabaseUpDown
    \/ \E tableIDs \in StatsDesired : StatsTableInfo(tableIDs)
    \/ \E t \in StatsTables : QueryGet(t)
    \/ \E t \in StatsTables : QueryRun(t)
    \/ StatsTableInfoReturn
    \/ \E pass \in stPending : StatsReconcileLock(pass)
    \/ \E k \in DOMAIN activeTables : StatsRemoveGet(k)
    \/ StatsRemoveEvents
    \/ StatsRemoveDelete
    \/ \E t \in StatsTables : StatsCreateGet(TableString(t))
    \/ StatsCreateRecord
    \/ StatsCreateEvent
    \/ StatsReconcileUnlock
    \/ \E t \in StatsTables : \E e \in EventSet : StatsEventFires(t, e)

\* The manager with orphan removal enabled over one scrape more: enough for
\* a table to be provisioned, to be orphaned, and to stay undesired for
\* another pass. (No record is written to the tables meanwhile.)
NextStatsRemoval ==
    \/ NewMultiConnectionManager
    \/ NewStatsTableManager(TRUE)
    \/ DatabaseUpDown
    \/ \E tableIDs \in StatsDesired :
          StatsTableInfoWithin(tableIDs, MaxRemovalCalls)
    \/ \E t \in StatsTables : QueryGet(t)
    \/ \E t \in StatsTables : QueryRun(t)
    \/ StatsTableInfoReturn
    \/ \E pass \in stPending : StatsReconcileLock(pass)
    \/ \E k \in DOMAIN activeTables : StatsRemoveGet(k)
    \/ StatsRemoveEvents
    \/ StatsRemoveDelete
    \/ \E t \in StatsTables : StatsCreateGet(TableString(t))
    \/ StatsCreateRecord
    \/ StatsCreateEvent
    \/ StatsReconcileUnlock

----------------------------------------------------------------------------
(* tableInfoCache *)

\* The lists of tables set is called with.
CacheLists == SeqsUpTo(TableInfos, MaxCacheLen)

\* No slice.
NoSlice == 0

\* getTableInfoCache: the instance, with tables: make([]*domain.TableInfo, 0)
NewTableInfoCache ==
    /\ cHeap = <<>>
    /\ cArrays = << <<>> >>
    /\ cTables = 1
    /\ cGot = NoSlice
    /\ cLastSet = <<>>
    /\ cEntryWritten = FALSE
    /\ numCacheOps = 0

\* The step is one more operation on the cache or on what it returned.
CacheOp ==
    /\ numCacheOps < MaxCacheOps
    /\ numCacheOps' = numCacheOps + 1

\* set(tables), with a list the schema reader has just built: c.tables = tables
CacheSet(tables) ==
    /\ CacheOp
    /\ cHeap' = cHeap \o tables
    /\ cArrays' = Append(cArrays,
                         [i \in 1..Len(tables) |-> Len(cHeap) + i])
    /\ cTables' = Len(cArrays) + 1
    /\ cLastSet' = tables
    /\ cEntryWritten' = FALSE
    /\ UNCHANGED cGot
    /\ UNCHANGED notCacheVars

\* The slice get returns when it returns c.tables itself.
GetReturns_Shared(arrays, tables) == tables

\* The slice get returns: result, which make has allocated.
GetReturns(arrays, tables) == Len(arrays) + 1

\* get(): result := make(..., len(c.tables)); copy(result, c.tables)
CacheGet ==
    /\ CacheOp
    /\ cArrays' = Append(cArrays, cArrays[cTables])
    /\ cGot' = GetReturns(cArrays, cTables)
    /\ UNCHANGED <<cHeap, cTables, cLastSet, cEntryWritten>>
    /\ UNCHANGED notCacheVars

\* clear(): c.tables = make([]*domain.TableInfo, 0)
CacheClear ==
    /\ CacheOp
    /\ cArrays' = Append(cArrays, <<>>)
    /\ cTables' = Len(cArrays) + 1
    /\ cLastSet' = <<>>
    /\ cEntryWritten' = FALSE
    /\ UNCHANGED <<cHeap, cGot>>
    /\ UNCHANGED notCacheVars

\* The caller of get replaces element i of the list it got: tables[i] = p
CallerReplaces(i, p) ==
    /\ CacheOp
    /\ cGot # NoSlice
    /\ i \in 1..Len(cArrays[cGot])
    /\ cArrays' = [cArrays EXCEPT ![cGot][i] = p]
    /\ UNCHANGED <<cHeap, cTables, cGot, cLastSet, cEntryWritten>>
    /\ UNCHANGED notCacheVars

\* The caller swaps elements i and j of the list it got.
CallerReorders(i, j) ==
    /\ CacheOp
    /\ cGot # NoSlice
    /\ i \in 1..Len(cArrays[cGot])
    /\ j \in 1..Len(cArrays[cGot])
    /\ i < j
    /\ cArrays' = [cArrays EXCEPT ![cGot][i] = cArrays[cGot][j],
                                  ![cGot][j] = cArrays[cGot][i]]
    /\ UNCHANGED <<cHeap, cTables, cGot, cLastSet, cEntryWritten>>
    /\ UNCHANGED notCacheVars

\* The caller appends to the list it got: tables = append(tables, p). The
\* list is full (its capacity is its length), so append allocates.
CallerAppends(p) ==
    /\ CacheOp
    /\ cGot # NoSlice
    /\ cArrays' = Append(cArrays, Append(cArrays[cGot], p))
    /\ cGot' = Len(cArrays) + 1
    /\ UNCHANGED <<cHeap, cTables, cLastSet, cEntryWritten>>
    /\ UNCHANGED notCacheVars

\* The caller writes to the entry element i of its list points to:
\* *tables[i] = info
CallerModifies(i, info) ==
    /\ CacheOp
    /\ cGot # NoSlice
    /\ i \in 1..Len(cArrays[cGot])
    /\ cHeap[cArrays[cGot][i]] # info
    /\ cHeap' = [cHeap EXCEPT ![cArrays[cGot][i]] = info]
    /\ cEntryWritten' =
          (\/ cEntryWritten
           \/ \E k \in 1..Len(cArrays[cTables]) :
                 cArrays[cTables][k] = cArrays[cGot][i])
    /\ UNCHANGED <<cArrays, cTables, cGot, cLastSet>>
    /\ UNCHANGED notCacheVars

\* The writer that called set(tables) still holds tables; set has stored that
\* very slice (c.tables = tables), so while c.tables is the list of a set, the
\* writer's list is the array c.tables points to. After clear, and before
\* the first set, c.tables is an array the cache has made itself.
WriterList == IF cLastSet # <<>> THEN cTables ELSE NoSlice

\* The writer overwrites element i of the list it passed to set:
\* tables[i] = p
WriterReplaces(i, p) ==
    /\ CacheOp
    /\ WriterList # NoSlice
    /\ i \in 1..Len(cArrays[WriterList])
    /\ cArrays[WriterList][i] # p
    /\ cArrays' = [cArrays EXCEPT ![WriterList][i] = p]
    /\ UNCHANGED <<cHeap, cTables, cGot, cLastSet, cEntryWritten>>
    /\ UNCHANGED notCacheVars

\* The writer swaps elements i and j of the list it passed to set.
WriterReorders(i, j) ==
    /\ CacheOp
    /\ WriterList # NoSlice
    /\ i \in 1..Len(cArrays[WriterList])
    /\ j \in 1..Len(cArrays[WriterList])
    /\ i < j
    /\ cArrays[WriterList][i] # cArrays[WriterList][j]
    /\ cArrays' = [cArrays EXCEPT
                      ![WriterList][i] = cArrays[WriterList][j],
                      ![WriterList][j] = cArrays[WriterList][i]]
    /\ UNCHANGED <<cHeap, cTables, cGot, cLastSet, cEntryWritten>>
    /\ UNCHANGED notCacheVars

NextCache ==
    \/ /\ numCacheOps < MaxCacheOps
       /\ \E tables \in CacheLists : CacheSet(tables)
    \/ CacheGet
    \/ CacheClear
    \/ \E i \in 1..MaxCacheLen : \E p \in 1..Len(cHeap) : CallerReplaces(i, p)
    \/ \E i, j \in 1..(MaxCacheLen + 1) : CallerReorders(i, j)
    \/ \E p \in 1..Len(cHeap) : CallerAppends(p)
    \/ \E i \in 1..(MaxCacheLen + 1) : \E info \in TableInfos :
          CallerModifies(i, info)

\* The cache, the callers of get and the writer that called set.
NextCacheWriter ==
    \/ NextCache
    \/ \E i \in 1..MaxCacheLen : \E p \in 1..Len(cHeap) : WriterReplaces(i, p)
    \/ \E i, j \in 1..MaxCacheLen : WriterReorders(i, j)

----------------------------------------------------------------------------
(* StatsTableCollector *)

\* strings.HasPrefix(s, prefix)
HasPrefix(s, prefix) ==
    /\ Len(prefix) <= Len(s)
    /\ SubSeq(s, 1, Len(prefix)) = prefix

\* The tables of the database other than side tables (one of them has a name
\* that starts with the prefix), and the patterns of the configuration: one
\* of them names the side tables.
CollectTableInfos ==
    {[Name |-> <<"a">>, Database |-> <<"d">>, Namespace |-> <<"n">>],
     [Name |-> <<"a", "_">>, Database |-> <<"d">>, Namespace |-> <<"n">>],
     [Name |-> <<"_", "b">>, Database |-> <<"d">>, Namespace |-> <<"n">>]}
CollectPatterns == {<<"*">>, <<"n", ":", "d", ":", "_", "*">>, <<"*", "a">>}
CollectPatternLists == {<<>>} \cup {<<pattern>> : pattern \in CollectPatterns}

\* The side table of a provisioned target, as the schema reader lists it.
SideTableInfo(target) ==
    [Name |-> getStatsTableName(target.Table), Database |-> target.Database,
     Namespace |-> target.Namespace]

NoStatsTableCollector ==
    /\ scMade = FALSE
    /\ scFilter = NoFilter
    /\ scTables = <<>>
    /\ scCalled = FALSE
    /\ scPassed = <<>>
    /\ scSideTables = {}
    /\ numCollects = 0

\* NewStatsTableCollector(statsTableProvider, filter, statsTablePrefix), with
\* the filter of engine.NewTableFilter
NewStatsTableCollector(includePatterns, excludePatterns) ==
    /\ ~scMade
    /\ scMade' = TRUE
    /\ scFilter' = TableFilter(includePatterns, excludePatterns)
    /\ UNCHANGED <<scTables, scCalled, scPassed, scSideTables, numCollects>>
    /\ UNCHANGED notCollectVars

\* Every table of the cache is kept.
NonStatsTables_All(tables) == tables

\* for _, table := range tables { if !strings.HasPrefix(table.Name,
\* c.statsTablePrefix) { nonStatsTables = append(nonStatsTables, table) } }
RECURSIVE NonStatsTables(_)
NonStatsTables(tables) ==
    IF tables = <<>> THEN <<>>
    ELSE LET rest == NonStatsTables(Tail(tables))
         IN IF ~HasPrefix(Head(tables).Name, sideTablePrefix)
            THEN <<Head(tables)>> \o rest ELSE rest

\* StatsTableCollector.Collect, up to the call of StatsTableInfo: the three
\* early returns and the call.
Collect(tables) ==
    /\ scMade
    /\ numCollects < MaxCollects
    /\ numCollects' = numCollects + 1
    /\ scTables' = tables
    /\ LET nonStatsTables == NonStatsTables(tables)
           filteredTableIDs == FilterLoop(scFilter, nonStatsTables, <<>>)
       IN IF Len(tables) = 0 \/ Len(nonStatsTables) = 0
             \/ Len(filteredTableIDs) = 0
          THEN /\ scCalled' = FALSE
               /\ scPassed' = <<>>
          ELSE /\ scCalled' = TRUE
               /\ scPassed' = filteredTableIDs
    /\ UNCHANGED <<scMade, scFilter, scSideTables>>
    /\ UNCHANGED notCollectVars

\* The reconciliation pass StatsTableInfo started provisions a table it was
\* passed: createStatsTable defines the side table getStatsTableName names.
SideTableProvisioned(target) ==
    /\ scCalled
    /\ \E i \in 1..Len(scPassed) : scPassed[i] = target
    /\ target \notin scSideTables
    /\ scSideTables' = scSideTables \cup {target}
    /\ UNCHANGED <<scMade, scFilter, scTables, scCalled, scPassed, numCollects>>
    /\ UNCHANGED notCollectVars

\* The tables the cache may hold: those of the database, the side tables
\* provisioned so far among them.
CachedTableInfos ==
    CollectTableInfos \cup {SideTableInfo(target) : target \in scSideTables}

NextCollect ==
    \/ /\ ~scMade
       /\ \E inc \in CollectPatternLists :
             \E exc \in CollectPatternLists :
                NewStatsTableCollector(inc, exc)
    \/ /\ scMade /\ numCollects < MaxCollects
       /\ \E tables \in SeqsUpTo(CachedTableInfos, MaxCollectTables) :
             Collect(tables)
    \/ \E i \in 1..Len(scPassed) : SideTableProvisioned(scPassed[i])

----------------------------------------------------------------------------
(* manageLiveQuery under every configured maximum *)

\* One goroutine of manageLiveQuery, from its start to its return, with the
\* maximum drawn from the configuration and with the calls of runLiveQuery,
\* the subscriptions and the notifications counted.
NoManagedQuery ==
    /\ cfgMax = 0
    /\ mPc = "none"
    /\ mAttempts = 0
    /\ mCtxDone = FALSE
    /\ mRuns = 0
    /\ mOpened = 0
    /\ mReads = 0

\* NewLiveQueryManager(connManager, reconnectDelay, maxReconnectAttempts) and
\* go m.manageLiveQuery(tableID): attempts := 0
ManageStart(max) ==
    /\ mPc = "none"
    /\ cfgMax' = max
    /\ mPc' = "loop"
    /\ mAttempts' = 0
    /\ UNCHANGED <<mCtxDone, mRuns, mOpened, mReads>>
    /\ UNCHANGED notManageVars

\* m.cancel()
ManageCancel ==
    /\ mPc # "none"
    /\ ~mCtxDone
    /\ mCtxDone' = TRUE
    /\ UNCHANGED <<cfgMax, mPc, mAttempts, mRuns, mOpened, mReads>>
    /\ UNCHANGED notManageVars

\* The attempt counter is set back when a subscription has opened.
AttemptsAfterOpen_Reset(attempts) == 0

\* attempts is a local of manageLiveQuery: runLiveQuery does not touch it.
AttemptsAfterOpen(attempts) == attempts

\* The top of the loop: return when m.ctx is done; attempts++; return when
\* attempts > m.maxReconnectAttempts; from the second attempt on go and wait
\* for the delay, on the first call runLiveQuery.
ManageAttempt ==
    /\ mPc = "loop"
    /\ IF mCtxDone
       THEN /\ mPc' = "returned"
            /\ UNCHANGED <<mAttempts, mRuns>>
       ELSE /\ mAttempts' = mAttempts + 1
            /\ IF mAttempts + 1 > cfgMax
               THEN /\ mPc' = "returned"
                    /\ UNCHANGED mRuns
               ELSE IF mAttempts + 1 > 1
               THEN /\ mPc' = "delay"
                    /\ UNCHANGED mRuns
               ELSE /\ mPc' = "run"
                    /\ mRuns' = mRuns + 1
    /\ UNCHANGED <<cfgMax, mCtxDone, mOpened, mReads>>
    /\ UNCHANGED notManageVars

\* select { case <-m.ctx.Done(): return; case <-time.After(m.reconnectDelay): }
\* and, after the delay, the call of runLiveQuery.
ManageWait ==
    /\ mPc = "delay"
    /\ \/ /\ mCtxDone
          /\ mPc' = "returned"
          /\ UNCHANGED mRuns
       \/ /\ mPc' = "run"
          /\ mRuns' = mRuns + 1
    /\ UNCHANGED <<cfgMax, mAttempts, mCtxDone, mOpened, mReads>>
    /\ UNCHANGED notManageVars

\* runLiveQuery up to the registration: connManager.Get or sdk.Live fails,
\* or the subscription is open.
ManageRun ==
    /\ mPc = "run"
    /\ \/ /\ mPc' = IF mCtxDone THEN "returned" ELSE "loop"
          /\ UNCHANGED <<mOpened, mAttempts>>
       \/ /\ ~mCtxDone
          /\ mPc' = "read"
          /\ mOpened' = mOpened + 1
          /\ mAttempts' = AttemptsAfterOpen(mAttempts)
    /\ UNCHANGED <<cfgMax, mCtxDone, mRuns, mReads>>
    /\ UNCHANGED notManageVars

\* runLiveQuery's loop: a notification is processed; or the channel is
\* closed and the error sends manageLiveQuery round its loop (or out of it,
\* m.ctx being done); or the context is done and, runLiveQuery having
\* returned nil, manageLiveQuery returns.
ManageRead ==
    /\ mPc = "read"
    /\ \/ /\ mReads < MaxReads
          /\ mReads' = mReads + 1
          /\ UNCHANGED mPc
       \/ /\ mPc' = IF mCtxDone THEN "returned" ELSE "loop"
          /\ UNCHANGED mReads
       \/ /\ mCtxDone
          /\ mPc' = "returned"
          /\ UNCHANGED mReads
    /\ UNCHANGED <<cfgMax, mAttempts, mCtxDone, mRuns, mOpened>>
    /\ UNCHANGED notManageVars

NextManage ==
    \/ \E max \in 0..MaxConfiguredAttempts : ManageStart(max)
    \/ ManageCancel
    \/ ManageAttempt
    \/ ManageWait
    \/ ManageRun
    \/ ManageRead

----------------------------------------------------------------------------
(* TableIdentifier.String, ParseTableIdentifier and the scope key *)

\* The names of namespaces, databases and tables: strings of letters and
\* colons, the empty one included.
NameChars == {"a", ":"}
Names == SeqsUpTo(NameChars, MaxNameLen)
TableIdentifiers ==
    {TableIdentifier(ns, db, t) : ns \in Names, db \in Names, t \in Names}

\* strings.Split(s, ":"): the parts of s between the colons
RECURSIVE Split(_, _)
Split(s, part) ==
    IF s = <<>> THEN <<part>>
    ELSE IF Head(s) = ":" THEN <<part>> \o Split(Tail(s), <<>>)
    ELSE Split(Tail(s), Append(part, Head(s)))

\* domain.ParseTableIdentifier
ParseTableIdentifier(s) ==
    LET parts == Split(s, <<>>)
    IN IF Len(parts) # 3
       THEN [id |-> NoTable, err |-> "invalid table identifier"]
       ELSE [id |-> TableIdentifier(parts[1], parts[2], parts[3]),
             err |-> ErrNil]

NoKeys ==
    /\ kCompared = FALSE
    /\ kT = NoTable
    /\ kU = NoTable
    /\ kParsed = [id |-> NoTable, err |-> ErrNil]

\* Two tables of the database are given their keys, and the key of the first
\* is parsed.
KeysCompared(t, u) ==
    /\ kCompared' = TRUE
    /\ kT' = t
    /\ kU' = u
    /\ kParsed' = ParseTableIdentifier(TableString(t))
    /\ UNCHANGED notKeyVars

\* One pair per behaviour: the keys have no state.
NextKeys ==
    /\ ~kCompared
    /\ \E t \in TableIdentifiers : \E u \in TableIdentifiers :
          KeysCompared(t, u)

----------------------------------------------------------------------------
(* Claims about the accumulator *)

\* What a GetAndClear has to return for the Record calls in `log`: one entry
\* per (table, kind) that was recorded, holding the number of calls per action.
ExpectedEntries(log) ==
    LET pairs == {<<c[1], c[2]>> : c \in {x \in AccCalls : log[x] > 0}}
        entryOf(tk) ==
            [Namespace |-> tk[1].Namespace, Database |-> tk[1].Database,
             Table |-> tk[1].Table, OperationType |-> tk[2],
             Creates |-> log[<<tk[1], tk[2], ActionCreate>>],
             Updates |-> log[<<tk[1], tk[2], ActionUpdate>>],
             Deletes |-> log[<<tk[1], tk[2], ActionDelete>>]]
    IN [e \in {entryOf(tk) : tk \in pairs} |->
            Cardinality({tk \in pairs : entryOf(tk) = e})]

\* C1: the result a GetAndClear has built holds exactly one entry per
\* (table, kind) recorded by the Record calls completed since the previous
\* GetAndClear returned, with Creates/Updates/Deletes equal to the number of
\* those calls per action; with no Record in between it is empty.
C1_DrainReturnsExactSums ==
    \A s \in Scrapers :
        accPc[s] \in {"get_reset", "get_unlock"} =>
            accResult[s] = ExpectedEntries(sinceDrain)

\* All Record calls were made and reported by an earlier GetAndClear, and a
\* second GetAndClear is about to return an empty result.
C1_Witness ==
    /\ numRecords = MaxRecords
    /\ numDrains >= 2
    /\ \A p \in Recorders : accPc[p] = "idle"
    /\ outstanding = ZeroLog
    /\ \E s \in Scrapers : accPc[s] = "get_unlock" /\ accResult[s] = EmptyBag

\* The count the accumulator still holds for one Record call shape.
Residual(c) ==
    LET key == makeKey(c[1], c[2])
    IN IF key \in DOMAIN metrics THEN FieldOf(metrics[key], c[3]) ELSE 0

\* C2: whenever no call is inside the accumulator, for each (table, kind,
\* action) the completed Record calls minus everything the GetAndClear calls
\* returned is exactly what the accumulator still holds: no increment is
\* lost and none is returned twice.
C2_NoIncrementLost ==
    accMu = NoOwner =>
        \A c \in AccCalls :
            c[3] \in CountedActions => Residual(c) = outstanding[c]

\* Two scrapes and all Record calls have completed, some increments were
\* returned and one is still held.
C2_Witness ==
    /\ numRecords = MaxRecords
    /\ numDrains >= 2
    /\ \A p \in AccProcs : accPc[p] = "idle"
    /\ \E c \in AccCalls : c[3] \in CountedActions /\ outstanding[c] = 1
    /\ \E c \in AccCalls : c[3] \in CountedActions /\ outstanding[c] = 0
                                /\ sinceDrain[c] = 0 /\ Residual(c) = 0

----------------------------------------------------------------------------
(* Claims about the live-query manager *)

Live(w) == wPc[w] \notin Done \cup {"unused"}

\* Every pass has completed, in the order of the calls, the manager was not
\* stopped, no goroutine gave up, and every goroutine still running has
\* registered its subscription and reads its stream.
Settled ==
    /\ numCalls > 0
    /\ pending = {}
    /\ lqMu = NoOwner
    /\ inOrder
    /\ ~mCancelled
    /\ \A w \in Workers : wPc[w] \in {"unused", "read", "stopped", "cancelled"}
    /\ \A w \in Workers : ~wRunCancelled[w]

\* C3: once the pass for the last desired list has completed and the
\* goroutines have opened and registered their subscriptions, the keys of
\* activeQueries are exactly the keys of that desired list.
C3_ActiveEqualsDesired ==
    Settled => DOMAIN activeQueries = {TableString(t) : t \in lastDesired}

\* C4: at every moment at most one manageLiveQuery goroutine that has not
\* been cancelled exists per table key.
C4_OneWorkerPerKey ==
    \A w1 \in Workers : \A w2 \in Workers :
        (/\ w1 # w2
         /\ Live(w1) /\ Live(w2)
         /\ ~mCancelled /\ ~wRunCancelled[w1] /\ ~wRunCancelled[w2])
            => wTable[w1] # wTable[w2]

\* C5: a goroutine that returned because its attempts exceeded
\* maxReconnectAttempts, every attempt having ended by a failure of the
\* stream of its subscription, has left no entry of its own in activeQueries.
C5_ExhaustedKeyAbsent ==
    \A w \in Workers :
        (wPc[w] = "exhausted" /\ wOnlyStream[w]) =>
            ~(/\ TableString(wTable[w]) \in DOMAIN activeQueries
              /\ activeQueries[TableString(wTable[w])].worker = w)

\* A LiveQueryInfo step.
LiveQueryInfoStep == numCalls' = numCalls + 1

\* C14: a LiveQueryInfo call can return whoever holds the worker-map lock
\* and whatever the workers are doing; when it returns, its reconciliation
\* pass is only scheduled, the worker map, the lock and the workers are as
\* they were, and its error is nil, as is that of every call before.
C14_InfoReturnsWithoutReconciling ==
    /\ [](numCalls < MaxScrapes => ENABLED (\E d \in DesiredLists : LiveQueryInfo(d)))
    /\ [](numCalls > 0 => lqErr = ErrNil)
    /\ [][LiveQueryInfoStep =>
             /\ \E pass \in pending' : /\ pass.id = numCalls'
                                        /\ pending' = pending \cup {pass}
                                        /\ pass \notin pending
             /\ UNCHANGED <<activeQueries, lqMu, wTable, wPc, wAttempts,
                            wRunCancelled, mCancelled>>]_vars

\* C14 witness: the latest call has returned with a nil error while its
\* pass has not started and the lock is held by the pass of the call before.
C14_Witness ==
    /\ numCalls = MaxScrapes
    /\ lqErr = ErrNil
    /\ lqMu = "reconcile"
    /\ \E pass \in pending : pass.id = numCalls

\* C18: once Stop has cancelled the manager's context every worker
\* terminates, wherever it is, and Stop's wait returns; and a worker that
\* leaves the top of its loop after the cancellation returns there, without
\* opening a subscription.
C18_StopTerminatesWorkers ==
    /\ mCancelled ~> (FreeSlots = Workers)
    /\ mCancelled ~> stopReturned
    /\ [][\A w \in Workers :
             (mCancelled /\ wPc[w] = "loop" /\ wPc'[w] # "loop")
                => wPc'[w] = "stopped"]_vars

\* C18 witness: Stop has returned after a worker that was reading its
\* stream when the context was cancelled has left through ctx.Done().
C18_Witness ==
    /\ stopReturned
    /\ \E w \in Workers : wPc[w] = "cancelled"
    /\ \E w \in Workers : wPc[w] = "stopped"

\* C19: the exit of a worker that a pass has cancelled never removes from
\* activeQueries the registration of another worker (the one started for
\* the table when it was added again).
C19_ExitKeepsNewRegistration ==
    [][\A w \in Workers :
          (~mCancelled /\ wPc[w] = "run_ok" /\ wPc'[w] = "cancelled")
             => \A k \in DOMAIN activeQueries :
                   activeQueries[k].worker # w => k \in DOMAIN activeQueries']_vars

\* The step is the first part of a pass; it drops key k.
PassDrops(k) ==
    /\ lqMu = NoOwner
    /\ lqMu' = "reconcile"
    /\ k \in DOMAIN activeQueries
    /\ k \notin DOMAIN activeQueries'

\* C20: when a pass drops the key of a table that has left the desired set,
\* the goroutine that registered the entry, if it has not returned, is
\* cancelled, so that it terminates without reconnecting.
C20_LeavingTableWorkerCancelled ==
    [][\A k \in DOMAIN activeQueries :
          LET w == activeQueries[k].worker
          IN (/\ PassDrops(k)
              /\ Live(w)
              /\ wTable[w] = activeQueries[k].tableID
              /\ ~mCancelled)
                => wRunCancelled'[w]]_vars

\* C20, the other tables: a pass changes the entry of no table that stays
\* desired and the position of no worker; a worker that returns because
\* its attempts are exhausted changes no entry and no other worker.
C20_OtherTablesUntouched ==
    [][/\ \A k \in DOMAIN activeQueries :
             (lqMu = NoOwner /\ lqMu' = "reconcile" /\ k \in DOMAIN activeQueries')
                => (activeQueries'[k] = activeQueries[k] /\ wPc' = wPc)
       /\ \A w \in Workers :
             (wPc[w] = "loop" /\ wPc'[w] = "exhausted")
                => /\ activeQueries' = activeQueries
                   /\ \A v \in Workers \ {w} :
                         /\ wPc'[v] = wPc[v]
                         /\ wTable'[v] = wTable[v]
                         /\ wRunCancelled'[v] = wRunCancelled[v]]_vars

----------------------------------------------------------------------------
(* Claims about the connection managers *)

GotSession(c) == gPc[c] = "returned" /\ gResult[c].conn # Nil

\* C6: in the multi-session pool no scope key ever has more than one
\* successfully created session, and every caller that Get returns a session
\* to receives the one session stored for its key.
C6_OneCreationPerKey ==
    dbConnManager = "multi" =>
        /\ \A i \in 1..Len(sessions) : \A j \in 1..Len(sessions) :
              sessions[i].createdFor = sessions[j].createdFor => i = j
        /\ \A c \in Callers :
              GotSession(c) =>
                  /\ KeyOf(c) \in DOMAIN connections
                  /\ gResult[c].conn = connections[KeyOf(c)]

\* Two concurrent Get calls for the same unseen key have both returned: one
\* created the session, the other found it after waiting for the mutex.
C6_Witness ==
    /\ dbConnManager = "multi"
    /\ \E c1 \in Callers : \E c2 \in Callers :
          /\ GotSession(c1) /\ gResult[c1].path = "created"
          /\ GotSession(c2) /\ gResult[c2].path = "rechecked"
          /\ KeyOf(c1) = KeyOf(c2)
          /\ gResult[c1].conn = gResult[c2].conn

ExactlyOneEmpty(a) ==
    \/ a.ns = Empty /\ a.db # Empty
    \/ a.ns # Empty /\ a.db = Empty

\* C7: in both pool variants a Get call with exactly one of ns and db empty
\* returns at once with the mismatch error and a nil session, and the call
\* changes nothing of the pool: no session is created, no scope is switched,
\* the cached sessions, the last-used scope and the mutexes stay as they were.
C7_MismatchChangesNothing ==
    [][\A c \in Callers :
          (gPc[c] = "idle" /\ gPc'[c] # "idle" /\ ExactlyOneEmpty(gArgs'[c])) =>
              /\ gPc'[c] = "returned"
              /\ gResult'[c].conn = Nil
              /\ gResult'[c].err = ErrMismatch
              /\ UNCHANGED <<sessions, sConn, lastNS, lastDB, sMu, connections,
                             creating>>]_vars

\* A session is cached in single-session mode and a Get call with a
\* non-empty namespace and an empty database has returned the error.
C7_Witness ==
    /\ dbConnManager = "single"
    /\ sConn # Nil
    /\ \E c \in Callers :
          /\ gPc[c] = "returned"
          /\ gArgs[c].ns # Empty /\ gArgs[c].db = Empty
          /\ gResult[c].err = ErrMismatch

CreationFailed(e) == e \in {"connect", "sign in", "authenticate", "use"}

\* C8: a Get whose session creation fails returns the error with a nil
\* session and the failing step stores nothing; whatever is cached, and
\* whatever session a caller receives (a caller that waited behind a failed
\* creation included), is a session whose creation succeeded for that scope;
\* and a caller about to create found nothing cached for its key.
C8_FailedCreationNotCached ==
    /\ [](/\ sConn \in {Nil} \cup (1..Len(sessions))
          /\ \A k \in DOMAIN connections :
                /\ connections[k] \in 1..Len(sessions)
                /\ k = ConnectionKey(sessions[connections[k]].createdFor[1],
                                     sessions[connections[k]].createdFor[2])
          /\ \A c \in Callers :
                /\ (gPc[c] = "returned" /\ gResult[c].err # ErrNil)
                      => gResult[c].conn = Nil
                /\ GotSession(c) => gResult[c].conn \in 1..Len(sessions)
                /\ gPc[c] = "m_create" => KeyOf(c) \notin DOMAIN connections)
    /\ [][\A c \in Callers :
            (/\ gPc[c] \in {"m_create", "s_lock"}
             /\ gPc'[c] = "returned"
             /\ gResult'[c].err # ErrNil) =>
                /\ CreationFailed(gResult'[c].err)
                /\ gResult'[c].conn = Nil
                /\ UNCHANGED <<sessions, sConn, lastNS, lastDB, connections>>]_vars

\* In the multi-session pool a creation failed and its caller has the error;
\* a caller that was waiting for the same key's mutex then made its own
\* creation attempt, which succeeded and was stored.
C8_Witness ==
    /\ dbConnManager = "multi"
    /\ \E c1 \in Callers : \E c2 \in Callers :
          /\ gPc[c1] = "returned" /\ CreationFailed(gResult[c1].err)
          /\ gWaited[c2] /\ GotSession(c2) /\ gResult[c2].path = "created"
          /\ KeyOf(c1) = KeyOf(c2)
          /\ connections[KeyOf(c2)] = gResult[c2].conn

\* C9: in single-session mode, whenever Get has returned the session to a
\* caller that asked for a (namespace, database) scope and the caller has not
\* yet run its operation, the session's current scope is the scope that
\* caller asked for.
C9_ScopeHeldUntilOperation ==
    dbConnManager = "single" =>
        \A c \in Callers :
            (GotSession(c) /\ gArgs[c].ns # Empty) =>
                sessions[gResult[c].conn].scope = <<gArgs[c].ns, gArgs[c].db>>

----------------------------------------------------------------------------
(* Claims about the table filter *)

IdOf(table) == TableIdentifier(table.Namespace, table.Database, table.Name)

MatchesAny(tableID, patterns) ==
    \E i \in 1..Len(patterns) : Match(patterns[i], TableString(tableID))

\* What the filter has to answer for a table.
Monitored(f, tableID) ==
    IF MatchesAny(tableID, f.excludePatterns) THEN FALSE
    ELSE IF Len(f.includePatterns) = 0 THEN TRUE
    ELSE MatchesAny(tableID, f.includePatterns)

\* The identifiers of the tables to monitor, in the order of the input.
RECURSIVE MonitoredInOrder(_, _)
MonitoredInOrder(f, tables) ==
    IF tables = <<>> THEN <<>>
    ELSE (IF Monitored(f, IdOf(Head(tables))) THEN <<IdOf(Head(tables))>>
          ELSE <<>>) \o MonitoredInOrder(f, Tail(tables))

\* C10: shouldMonitor is false for a table whose canonical string matches an
\* exclude pattern, even when it matches an include pattern too; otherwise it
\* is true when no include patterns are configured and, when some are, exactly
\* when the table matches one of them. FilterTables returns, in input order,
\* exactly the input tables for which that holds.
C10_ExcludeFirstFilter ==
    fMade =>
        /\ \A table \in TableInfos :
              shouldMonitor(fFilter, IdOf(table)) = Monitored(fFilter, IdOf(table))
        /\ fCalled => fFiltered = MonitoredInOrder(fFilter, fTables)

\* A table that matches both an include and an exclude pattern was dropped
\* and the table after it, matching an include pattern only, was returned.
C10_Witness ==
    /\ fCalled
    /\ Len(fTables) = 2
    /\ MatchesAny(IdOf(fTables[1]), fFilter.excludePatterns)
    /\ MatchesAny(IdOf(fTables[1]), fFilter.includePatterns)
    /\ ~MatchesAny(IdOf(fTables[2]), fFilter.excludePatterns)
    /\ MatchesAny(IdOf(fTables[2]), fFilter.includePatterns)
    /\ fFiltered = <<IdOf(fTables[2])>>

----------------------------------------------------------------------------
(* Claims about the detector *)

OtherFields(r) == (DOMAIN r) \ {"id"}
ScalarFields(r) == {k \in DOMAIN r : r[k] = "scalar"}
IsGraphShape(r) == {"in", "out"} \subseteq DOMAIN r

\* C11 as stated: graph with both "in" and "out"; else key-value with an
\* identifier and exactly one other field; else relational with four or more
\* fields (the identifier counted), all of them scalar; else document.
C11_ClassifiedAsStated ==
    (dCalled /\ dInput.kind = "map" /\ "id" \in DOMAIN dInput.fields) =>
        LET r == dInput.fields
        IN dType = IF IsGraphShape(r) THEN OperationTypeGraph
                   ELSE IF Cardinality(OtherFields(r)) = 1
                   THEN OperationTypeKeyValue
                   ELSE IF /\ Cardinality(DOMAIN r) >= 4
                           /\ ScalarFields(r) = DOMAIN r
                   THEN OperationTypeRelational
                   ELSE OperationTypeDocument

\* C11 (amended): graph with both "in" and "out", whatever else is there;
\* else key-value with one or two fields besides the identifier; else
\* relational with at least three scalar fields besides the identifier and at
\* most one map or array field; else document.
C11_Classification ==
    (dCalled /\ dInput.kind = "map") =>
        LET r == dInput.fields
            scalars == Cardinality(OtherFields(r) \cap ScalarFields(r))
            nested == Cardinality(OtherFields(r) \ ScalarFields(r))
        IN dType = IF IsGraphShape(r) THEN OperationTypeGraph
                   ELSE IF scalars + nested \in {1, 2} THEN OperationTypeKeyValue
                   ELSE IF scalars >= 3 /\ nested <= 1
                   THEN OperationTypeRelational
                   ELSE OperationTypeDocument

\* A record with an identifier and two other fields was classified key-value.
C11_Witness ==
    /\ dCalled
    /\ dInput.kind = "map"
    /\ DOMAIN dInput.fields = {"id", "a", "b"}
    /\ dType = OperationTypeKeyValue

\* C22: a record without both "in" and "out" and with at most two fields
\* besides its identifier, none at all included, is classified key-value.
C22_FewFieldsIsKeyValue ==
    (/\ dCalled
     /\ dInput.kind = "map"
     /\ ~IsGraphShape(dInput.fields)
     /\ Cardinality(OtherFields(dInput.fields)) <= 2)
        => dType = OperationTypeKeyValue

\* C22, the part that holds: with one or two fields besides the identifier
\* (one of "in" and "out" possibly among them) the record is key-value.
C22_OneOrTwoFieldsIsKeyValue ==
    (/\ dCalled
     /\ dInput.kind = "map"
     /\ ~IsGraphShape(dInput.fields)
     /\ Cardinality(OtherFields(dInput.fields)) \in {1, 2})
        => dType = OperationTypeKeyValue

\* C22: the record that is classified otherwise has no field besides its
\* identifier.
C22_NoFieldIsDocument ==
    (/\ dCalled
     /\ dInput.kind = "map"
     /\ OtherFields(dInput.fields) = {})
        => dType = OperationTypeDocument

\* C23: a record that is neither graph nor key-value is relational exactly
\* when, the identifier not counted, at least three of its fields are scalar
\* and at most one is a map or an array; otherwise it is document.
C23_RelationalOrDocument ==
    (/\ dCalled
     /\ dInput.kind = "map"
     /\ ~IsGraphShape(dInput.fields)
     /\ Cardinality(OtherFields(dInput.fields)) \notin {1, 2})
        => LET r == dInput.fields
               nested == {k \in OtherFields(r) : r[k] \in {"map", "array"}}
               scalars == OtherFields(r) \ nested
           IN IF Cardinality(scalars) >= 3 /\ Cardinality(nested) <= 1
              THEN dType = OperationTypeRelational
              ELSE dType = OperationTypeDocument

\* C23 witness: three scalar fields and one nested field, classified
\* relational.
C23_Witness ==
    /\ dCalled
    /\ dInput.kind = "map"
    /\ dInput.fields = [k \in {"id", "a", "b", "c", "d"} |->
                           IF k = "d" THEN "map" ELSE "scalar"]
    /\ dType = OperationTypeRelational

\* C23, the other case named: three scalar fields and two nested fields,
\* classified document.
C23_TwoNestedIsDocument ==
    /\ dCalled
    /\ dInput.kind = "map"
    /\ dInput.fields = [k \in {"id", "a", "b", "c", "d", "e"} |->
                           IF k \in {"d", "e"} THEN "array" ELSE "scalar"]
    /\ dType = OperationTypeDocument

\* C24: for every record the operation kind the events of createStatsTable
\* count it under is the operation kind DetectFromRecord returns for it.
C24_EventAgreesWithDetector ==
    (dCalled /\ tOpType # "none") => KindOfColumn(tOpType) = dType

\* C24, the cases named. A record with only an identifier:
C24_IdentifierOnlyAgrees ==
    (dCalled /\ tOpType # "none" /\ DOMAIN tRecord = {"id"})
        => KindOfColumn(tOpType) = dType
\* a record with more than two scalar fields and a field holding an array:
C24_ArrayFieldAgrees ==
    (/\ dCalled
     /\ tOpType # "none"
     /\ \E k \in DOMAIN tRecord : tRecord[k] = "array2"
     /\ Cardinality({k \in DOMAIN tRecord \ {"id"} : tRecord[k] = "scalar"}) >= 3)
        => KindOfColumn(tOpType) = dType
\* a record with exactly three scalar fields besides the identifier, "in" and
\* "out" not both among them (this one holds):
C24_ThreeScalarsAgree ==
    (/\ dCalled
     /\ tOpType # "none"
     /\ Cardinality(DOMAIN tRecord) = 4
     /\ ~({"in", "out"} \subseteq DOMAIN tRecord)
     /\ \A k \in DOMAIN tRecord : tRecord[k] \in {"scalar", "falsy"})
        => KindOfColumn(tOpType) = dType

----------------------------------------------------------------------------
(* Claims about the stats table manager *)

\* The database (namespace, database) table t is in.
TargetScope(t) == <<t.Namespace, t.Database>>

\* The side-table record and the three triggers of table t are in place.
Provisioned(t) ==
    /\ RecordKey(TargetScope(t), getStatsTableName(t.Table)) \in DOMAIN dbRecords
    /\ \A e \in EventSet : EventKey(TargetScope(t), t.Table, e) \in dbEvents

\* The step ends a call of createStatsTable with an error.
CreateReturnsError ==
    /\ rPc \in {"cr_record", "cr_event"}
    /\ rKey \notin rTried
    /\ rKey \in rTried'

\* C12: createStatsTable, however often it is called for a table, returns
\* an error only when the database is unreachable; its conditional CREATE
\* never changes a side-table record that already exists (no second record,
\* no counter reset); and a table it has succeeded for has its side-table
\* record and each of its three triggers on the target table, until the
\* table is removed.
C12_CreateIsIdempotent ==
    /\ [](\A k \in DOMAIN activeTables :
             \/ rPc \in {"rm_events", "rm_delete"} /\ rKey = k
             \/ Provisioned(activeTables[k].targetTableID))
    /\ [][/\ CreateReturnsError => ~dbUp
          /\ (rPc = "cr_record" /\ rPc' # "cr_record") =>
                \A key \in DOMAIN dbRecords :
                   /\ key \in DOMAIN dbRecords'
                   /\ dbRecords'[key] = dbRecords[key]]_vars

\* C12 witness: createStatsTable, called again for a table after an earlier
\* call failed at a trigger definition, is past its conditional CREATE, and
\* the side-table record, which has counted operations since, is as it was.
C12_Witness ==
    /\ rPc = "cr_event"
    /\ rIdx = 1
    /\ LET t == DesiredMap(rDesired)[rKey]
           key == RecordKey(TargetScope(t), getStatsTableName(t.Table))
       IN /\ key \in DOMAIN dbRecords
          /\ dbRecords[key] = Counted

\* C13: with orphan removal disabled no pass is ever at a REMOVE EVENT or a
\* DELETE of a side table, and no step removes a key from activeTables, an
\* event or a side-table record, whatever tables have left the desired set.
C13_NoRemovalWhenDisabled ==
    /\ [](~removeOrphanTables => rPc \notin {"rm_events", "rm_delete"})
    /\ [][~removeOrphanTables =>
             /\ DOMAIN activeTables \subseteq DOMAIN activeTables'
             /\ dbEvents \subseteq dbEvents'
             /\ DOMAIN dbRecords \subseteq DOMAIN dbRecords']_vars

\* C13 witness: orphan removal is off, and a pass has nothing left to do
\* while a table that is not in its desired set is still active.
C13_Witness ==
    /\ stMade
    /\ ~removeOrphanTables
    /\ rPc = "pick"
    /\ ToCreate = {}
    /\ \E k \in DOMAIN activeTables : k \notin DOMAIN DesiredMap(rDesired)

\* The entries of the result that are about table t.
EntriesFor(t) ==
    {i \in 1..Len(stResult) :
        /\ stResult[i].Namespace = t.Namespace
        /\ stResult[i].Database = t.Database
        /\ stResult[i].Table = t.Table}

\* C15: when StatsTableInfo has returned, every goroutine is done, the
\* result has exactly one entry for each desired table whose query returned
\* a row and none for any other table, and the error is nil.
C15_OneEntryPerAnsweredTable ==
    sPc = "returned" =>
        /\ \A t \in sDesired : qPc[t] = "done"
        /\ \A t \in StatsTables :
              Cardinality(EntriesFor(t)) =
                 IF t \in sDesired /\ qOut[t] = "row" THEN 1 ELSE 0
        /\ stErr = ErrNil

\* C15 witness: a call has returned one table's entry although the query of
\* another desired table failed.
C15_Witness ==
    /\ sPc = "returned"
    /\ Len(stResult) = 1
    /\ \E t \in sDesired : qOut[t] \in {"get_failed", "query_failed"}
    /\ \E t \in sDesired : qOut[t] = "row"

\* C16: a StatsTableInfo call all of whose per-table queries failed returns
\* an error.
C16_TotalFailureIsError ==
    (/\ sPc = "returned"
     /\ \A t \in sDesired : qOut[t] \in {"get_failed", "query_failed"})
        => stErr # ErrNil

----------------------------------------------------------------------------
(* Claims about the table info cache *)

\* What a get would return now: the entries the cache's list points to.
CacheContents == [i \in 1..Len(cArrays[cTables]) |-> cHeap[cArrays[cTables][i]]]

\* C17: whatever the callers of get have done with the lists they got and
\* with the entries in them, a get returns the contents of the most recent
\* set (the empty list when there was none, or after clear).
C17_GetReturnsLastSet == CacheContents = cLastSet

\* C17 without writes to the entries: replacing, reordering and appending
\* elements of a list get returned changes nothing a later get returns.
C17_ListCopyIsolated == ~cEntryWritten => CacheContents = cLastSet

\* C17_ListCopyIsolated is about a caller that has changed its list: its list
\* differs from the cache's, which is not empty.
C17_ListChanged ==
    /\ cGot # NoSlice
    /\ ~cEntryWritten
    /\ cArrays[cTables] # <<>>
    /\ cArrays[cGot] # cArrays[cTables]

----------------------------------------------------------------------------
(* Claims about the list set is called with *)

\* C38: set stores its own snapshot of the list: a step that is neither a set
\* nor a clear and writes to no entry (the writer overwriting or reordering
\* the elements of the list it passed in, a caller of get changing its own
\* list) changes nothing of what a get returns.
C38_SetStoresSnapshot ==
    [][(cTables' = cTables /\ cHeap' = cHeap)
          => CacheContents' = CacheContents]_vars

\* C38: the writer has changed the list it passed to set, and a get after
\* that has returned a list with other contents than those set was called
\* with.
C38_WriterChangeVisible ==
    /\ WriterList # NoSlice
    /\ ~cEntryWritten
    /\ cGot # NoSlice
    /\ cArrays[cGot] = cArrays[cTables]
    /\ CacheContents # cLastSet

\* C38 for the callers of get alone: without the writer's changes, no step
\* but set, clear and a write to an entry changes what a get returns.
C38_CallersChangeInvisible ==
    [][(cTables' = cTables /\ cHeap' = cHeap /\ NextCache)
          => CacheContents' = CacheContents]_vars

----------------------------------------------------------------------------
(* Claims about Record and processNotification *)

\* The keys of the counters a.metrics holds for (table, kind).
CountersFor(m, tableID, opType) ==
    {key \in DOMAIN m : EntryIsFor(m[key], tableID, opType)}

\* The value a.metrics holds for (table, kind, action): 0 without a counter.
CountFor(m, c) ==
    LET keys == CountersFor(m, c[1], c[2])
    IN IF keys = {} THEN 0 ELSE FieldOf(m[CHOOSE key \in keys : TRUE], c[3])

\* Goroutine p's Record call creates its counter if absent (its lookup).
RecordLookupStep(p) == accPc[p] = "rec_lookup" /\ accPc'[p] = "rec_switch"
\* Goroutine p's Record call counts and returns.
RecordReturnStep(p) == accPc[p] = "rec_switch" /\ accPc'[p] = "idle"

\* C29: a Record(table, kind, action) with action create, update or delete
\* adds exactly 1 to exactly one field of exactly one counter, the one of
\* (table, kind), which it creates with zero counts if absent; every other
\* counter and the other two fields keep their values; there is one counter
\* per (table, kind), so the same table under another kind has its own.
C29_RecordAddsOneToOneField ==
    /\ [](\A t \in AccTables, k \in AccKinds :
            Cardinality(CountersFor(metrics, t, k)) <= 1)
    /\ [][\A p \in Recorders :
            LET t == accArgs[p][1]
                k == accArgs[p][2]
                a == accArgs[p][3]
            IN /\ RecordLookupStep(p) =>
                    /\ Cardinality(CountersFor(metrics', t, k)) = 1
                    /\ \A key \in DOMAIN metrics :
                          key \in DOMAIN metrics' /\ metrics'[key] = metrics[key]
                    /\ \A c \in AccCalls : CountFor(metrics', c) = CountFor(metrics, c)
               /\ (RecordReturnStep(p) /\ a \in CountedActions) =>
                    /\ DOMAIN metrics' = DOMAIN metrics
                    /\ Cardinality({key \in DOMAIN metrics :
                                       metrics'[key] # metrics[key]}) = 1
                    /\ \A c \in AccCalls :
                          CountFor(metrics', c) =
                              CountFor(metrics, c) + (IF c = <<t, k, a>> THEN 1 ELSE 0)
               /\ (accPc[p] = "idle" /\ accPc'[p] # "idle") =>
                    metrics' = metrics]_vars

\* C29 witness: one table has a counter under each of two kinds, each with
\* one create and nothing else, after two Record calls.
C29_Witness ==
    \E t \in AccTables :
        /\ \A k \in AccKinds :
              /\ CountFor(metrics, <<t, k, ActionCreate>>) = 1
              /\ CountFor(metrics, <<t, k, ActionUpdate>>) = 0
              /\ CountFor(metrics, <<t, k, ActionDelete>>) = 0
        /\ Cardinality(DOMAIN metrics) = 2
        /\ \A p \in Recorders : accPc[p] = "idle"

\* Goroutine p's processNotification call is made in this step.
ProcessNotificationStep(p) == pnLast'[p].call = numNotifs + 1

\* C25: a notification whose action is not create, update or delete is taken
\* as unknown and changes no count: processNotification leaves every counter
\* of the accumulator as it was and starts no Record call.
C25_UnknownActionCountsNothing ==
    [][\A p \in Recorders :
          (/\ ProcessNotificationStep(p)
           /\ pnLast'[p].notification.Action \notin
                 {"CreateAction", "UpdateAction", "DeleteAction"})
              => /\ pnLast'[p].action = ActionUnknown
                 /\ metrics' = metrics
                 /\ accPc' = accPc
                 /\ accMu' = accMu
                 /\ numRecords' = numRecords]_vars

\* C25 witness: a count was recorded, and the notification processed after
\* that had another action.
C25_Witness ==
    /\ \E p \in Recorders :
          /\ pnLast[p].notification.Action = "KILLED"
          /\ pnLast[p].call = 2
          /\ accPc[p] = "idle"
    /\ \E c \in AccCalls : CountFor(metrics, c) = 1
    /\ numNotifs = 2
    /\ numRecords = 1

\* C26: a create, update or delete notification whose result is nil or is
\* not a map is counted once, under its table, its action and the kind
\* unknown: processNotification calls Record with these, and the call's
\* return adds 1 to that count and to no other.
C26_ShapelessResultCountsAsUnknown ==
    [][\A p \in Recorders :
          LET n == pnLast'[p]
              counted == /\ n.notification.Action \in
                                {"CreateAction", "UpdateAction", "DeleteAction"}
                         /\ n.notification.Result.kind # "map"
              call == <<n.table, OperationTypeUnknown, n.action>>
          IN /\ (ProcessNotificationStep(p) /\ counted) =>
                    /\ n.action = CASE n.notification.Action = "CreateAction" -> ActionCreate
                                    [] n.notification.Action = "UpdateAction" -> ActionUpdate
                                    [] OTHER -> ActionDelete
                    /\ accPc'[p] = "rec_lookup"
                    /\ accArgs'[p] = call
             /\ (RecordReturnStep(p) /\ counted) =>
                    \A c \in AccCalls :
                        CountFor(metrics', c) =
                            CountFor(metrics, c) + (IF c = call THEN 1 ELSE 0)]_vars

\* C26 witness: an update notification with a nil result has been counted as
\* one update of kind unknown.
C26_Witness ==
    \E p \in Recorders :
        /\ pnLast[p].notification.Action = "UpdateAction"
        /\ pnLast[p].notification.Result.kind = "nil"
        /\ accPc[p] = "idle"
        /\ CountFor(metrics, <<pnLast[p].table, OperationTypeUnknown, ActionUpdate>>) = 1
        /\ numRecords = 1

----------------------------------------------------------------------------
(* Claims about the removal and the tracking of side tables *)

\* The triggers defined on table t.
TriggersOf(events, t) ==
    {e \in EventSet : EventKey(TargetScope(t), t.Table, e) \in events}

\* The key of the side-table record of table t.
SideRecord(t) == RecordKey(TargetScope(t), getStatsTableName(t.Table))

\* The pass holding m.mu desires table t.
PassDesires(t) == TableString(t) \in DOMAIN DesiredMap(rDesired)

\* reconcileTables returns in this step.
StatsPassEnds == stMu = "reconcile" /\ stMu' = NoOwner

C27_RecordGoneTriggersLeft ==
    \E t \in StatsTables :
        /\ SideRecord(t) \notin DOMAIN dbRecords
        /\ TriggersOf(dbEvents, t) = EventSet

\* C28: a key gets into activeTables only when createStatsTable has
\* succeeded for it, that is by the step in which the last of the three
\* trigger definitions is accepted, with the side-table record and the three
\* triggers in place; a call of createStatsTable that fails (which it does
\* only while the database is unreachable) leaves the key out; and a pass ends
\* only when every key it desires is tracked or has had its createStatsTable
\* attempted and failed in this very pass, so that a pass during which every
\* statement is accepted ends with every desired table tracked.
C28_TrackedOnlyAfterSuccessfulCreate ==
    [][/\ \A k \in (DOMAIN activeTables') \ (DOMAIN activeTables) :
            /\ rPc = "cr_event"
            /\ rIdx = Len(EventNames)
            /\ rKey = k
            /\ k \in DOMAIN DesiredMap(rDesired)
            /\ k \notin rTried'
            /\ SideRecord(activeTables'[k].targetTableID) \in DOMAIN dbRecords'
            /\ TriggersOf(dbEvents', activeTables'[k].targetTableID) = EventSet
       /\ \A k \in rTried' \ rTried :
            /\ k \notin DOMAIN activeTables'
            /\ ~dbUp
       /\ StatsPassEnds =>
            /\ \A k \in DOMAIN DesiredMap(rDesired) :
                  k \in DOMAIN activeTables \/ k \in rTried
            /\ rTried = {} =>
                  DOMAIN DesiredMap(rDesired) \subseteq DOMAIN activeTables']_vars

\* C28 witness: orphans are never removed, an earlier createStatsTable for a
\* table defined two of its triggers and failed at the third, so the table
\* was not recorded; a later pass that desires it is provisioning it again.
C28_Witness ==
    /\ ~removeOrphanTables
    /\ rPc = "cr_event"
    /\ rIdx = 2
    /\ dbUp
    /\ rKey \notin DOMAIN activeTables
    /\ LET t == DesiredMap(rDesired)[rKey]
       IN /\ TriggersOf(dbEvents, t) = {"stats_create", "stats_update"}
          /\ SideRecord(t) \in DOMAIN dbRecords

----------------------------------------------------------------------------
(* Claims about the last-used scope of the single session *)

\* Caller c's Get passes the scope check and returns in this step.
SingleUseStep(c) ==
    dbConnManager = "single" /\ gPc[c] = "s_use" /\ gPc'[c] = "returned"

\* The number of conn.Use calls made on the single session so far.
UsesOf(ss) == IF sConn = Nil THEN 0 ELSE ss[sConn].uses

\* C30: in single-session mode a Get with a non-empty scope issues a scope
\* switch exactly when (ns, db) differs from the remembered last scope, and
\* when it succeeds the remembered last scope is (ns, db); a Get with the
\* empty scope issues no switch and leaves the remembered scope as it was;
\* when the switch fails Get returns an error and the remembered scope is as
\* it was. Nothing else changes the remembered scope, and the creation of
\* the session switches only for a non-empty scope, the remembered scope
\* being empty then.
C30_SwitchOnlyOnScopeChange ==
    [][/\ \A c \in Callers :
            SingleUseStep(c) =>
                LET ns == gArgs[c].ns
                    db == gArgs[c].db
                    issued == UsesOf(sessions') = UsesOf(sessions) + 1
                    ok == gResult'[c].err = ErrNil
                IN /\ issued \/ UsesOf(sessions') = UsesOf(sessions)
                   /\ ns # Empty => (issued <=> <<ns, db>> # <<lastNS, lastDB>>)
                   /\ (ns # Empty /\ ok) =>
                         /\ lastNS' = ns /\ lastDB' = db
                         /\ gResult'[c].conn = sConn
                   /\ ns = Empty =>
                         /\ ~issued
                         /\ ok
                         /\ lastNS' = lastNS /\ lastDB' = lastDB
                   /\ ~ok =>
                         /\ issued
                         /\ gResult'[c].conn = Nil
                         /\ lastNS' = lastNS /\ lastDB' = lastDB
       /\ (dbConnManager = "single" /\ ~\E c \in Callers : SingleUseStep(c)) =>
            /\ lastNS' = lastNS /\ lastDB' = lastDB
            /\ (sConn = Nil /\ sConn' # Nil) =>
                  /\ sessions'[sConn'].uses \in {0, 1}
                  /\ sessions'[sConn'].uses = 1 =>
                        /\ lastNS = Empty
                        /\ sessions'[sConn'].createdFor[1] # Empty
                        /\ sessions'[sConn'].createdFor[2] # Empty]_vars

\* C30 witness: a second Get with the scope the first one left remembered
\* has returned the session without another switch: the session has had the
\* switch of its creation and the switch of the first Get.
C30_Witness ==
    /\ dbConnManager = "single"
    /\ numGets = 2
    /\ sConn # Nil
    /\ sessions[sConn].uses = 2
    /\ lastNS # Empty
    /\ \E c \in Callers :
          /\ GotSession(c)
          /\ gResult[c].path = "cached"
          /\ <<gArgs[c].ns, gArgs[c].db>> = <<lastNS, lastDB>>
    /\ \A c \in Callers : gPc[c] \in {"idle", "returned"}

----------------------------------------------------------------------------
(* Claims about the keys of the multi-session pool *)

\* Caller c is inside getOrCreate with the mutex of its key held.
HoldsCreation(c) == gPc[c] \in {"m_load2", "m_create"}

\* C31: in the multi-session pool a Get is held up only by a creation for its
\* own scope key: whenever no other caller holds the creation of the key of
\* caller c, the next step of c's Get can be taken, wherever c is in
\* getOrCreate and whatever creations for other keys are in flight.
C31_OtherKeysNeverBlock ==
    dbConnManager = "multi" =>
        \A c \in Callers :
            /\ gPc[c] = "m_load" => ENABLED MultiLoad(c)
            /\ gPc[c] = "m_loadorstore" => ENABLED MultiLoadOrStore(c)
            /\ (/\ gPc[c] = "m_lock"
                /\ \A x \in Callers \ {c} :
                       HoldsCreation(x) => KeyOf(x) # KeyOf(c))
                  => ENABLED MultiLock(c)
            /\ gPc[c] = "m_load2" => ENABLED MultiLoadAgain(c)
            /\ gPc[c] = "m_create" => ENABLED MultiCreate(c)

\* C36: in the multi-session pool a stored session is never replaced or
\* removed; a key is stored only by the creation of a caller that asked for
\* it and found none stored, so there is one session per stored key and no
\* more stored keys than keys asked for; and a Get for a key that is stored
\* returns the stored session and creates nothing.
C36_StoredSessionsStay ==
    [][dbConnManager = "multi" =>
          /\ \A k \in DOMAIN connections :
                /\ k \in DOMAIN connections'
                /\ connections'[k] = connections[k]
          /\ \A k \in (DOMAIN connections') \ (DOMAIN connections) :
                \E c \in Callers :
                   /\ gPc[c] = "m_create"
                   /\ KeyOf(c) = k
                   /\ gResult'[c].conn = connections'[k]
                   /\ Len(sessions') = Len(sessions) + 1
          /\ Len(sessions') # Len(sessions) =>
                (DOMAIN connections') # (DOMAIN connections)
          /\ Cardinality(DOMAIN connections') = Len(sessions')
          /\ \A c \in Callers :
                (/\ gPc[c] \notin {"idle", "returned"}
                 /\ gPc'[c] = "returned"
                 /\ KeyOf(c) \in DOMAIN connections) =>
                    /\ gResult'[c].conn = connections[KeyOf(c)]
                    /\ gResult'[c].err = ErrNil
                    /\ sessions' = sessions]_vars

\* C36 witness: a Get for a key stored by an earlier Get has returned the
\* stored session, found at the first look into the pool, and the pool
\* holds the one session created.
C36_Witness ==
    /\ dbConnManager = "multi"
    /\ numGets = MaxGets
    /\ Len(sessions) = 1
    /\ \E c \in Callers :
          /\ GotSession(c)
          /\ gResult[c].path = "cached"
          /\ gResult[c].conn = connections[KeyOf(c)]
    /\ \A c \in Callers : gPc[c] \in {"idle", "returned"}

\* C31 witness: the creations for two different scope keys are in flight at
\* the same time.
C31_Witness ==
    /\ dbConnManager = "multi"
    /\ \E c, x \in Callers :
          /\ gPc[c] = "m_create"
          /\ gPc[x] = "m_create"
          /\ KeyOf(c) # KeyOf(x)
          /\ <<gArgs[c].ns, gArgs[c].db>> # <<gArgs[x].ns, gArgs[x].db>>

\* C31, the Get that completes: a caller has got the session it created for
\* one key while the creation for another key is still in flight, and the
\* pool holds no session for that other key yet.
C31_CompletesBesideCreation ==
    /\ dbConnManager = "multi"
    /\ \E c, x \in Callers :
          /\ gPc[c] = "m_create"
          /\ GotSession(x)
          /\ gResult[x].path = "created"
          /\ KeyOf(c) # KeyOf(x)
          /\ KeyOf(c) \notin DOMAIN connections

----------------------------------------------------------------------------
(* Claims about the stats-table collector *)

\* The tables of a list of TableInfo or of TableIdentifier.
ListedNames(tables) == {tables[i].Name : i \in 1..Len(tables)}
PassedNames == {scPassed[i].Table : i \in 1..Len(scPassed)}

----------------------------------------------------------------------------
(* Claims about the order of the reconciliation passes *)

\* C33: the passes are applied in the order of the calls that started them:
\* no pass of the live-query manager takes m.mu while the pass of an earlier
\* LiveQueryInfo call is still waiting for it.
C33_PassesInCallOrder ==
    [][\A p \in pending :
          p \notin pending' => \A q \in pending : q.id >= p.id]_vars

\* C33 for the stats manager: no pass takes m.mu while the pass of an earlier
\* StatsTableInfo call is still waiting for it.
C33_StatsPassesInCallOrder ==
    [][\A p \in stPending :
          p \notin stPending' => \A q \in stPending : q.id >= p.id]_vars

\* C33, the passes that do run in call order: the passes of two calls have
\* run, the earlier one first.
C33_InOrderReached ==
    /\ numCalls >= 2
    /\ pending = {}
    /\ lqMu = NoOwner
    /\ inOrder

\* C33, the stale set: the passes of two calls have run, the later call's
\* first, every worker is settled, and the active set is not the one of the
\* latest call.
C33_StaleSetActive ==
    /\ numCalls >= 2
    /\ pending = {}
    /\ lqMu = NoOwner
    /\ ~inOrder
    /\ ~mCancelled
    /\ \A w \in Workers : wPc[w] \in {"unused", "read", "stopped", "cancelled"}
    /\ \A w \in Workers : ~wRunCancelled[w]
    /\ DOMAIN activeQueries # {TableString(t) : t \in lastDesired}

----------------------------------------------------------------------------
(* Claims about the attempts of a manageLiveQuery goroutine *)

\* C34: a manageLiveQuery goroutine calls runLiveQuery at most
\* maxReconnectAttempts times in all: every call was counted by attempts
\* before it was made, the count is never set back, by an opened
\* subscription or otherwise, and never exceeds the maximum by more than the
\* one that ends the goroutine; so there are no more subscriptions than the
\* maximum either, and none at all under a maximum of zero.
C34_RunsBoundedByMaximum ==
    /\ mRuns <= cfgMax
    /\ mOpened <= mRuns
    /\ mRuns <= mAttempts
    /\ mAttempts <= cfgMax + 1
    /\ mPc \in {"run", "read", "delay"} => mAttempts \in 1..cfgMax
    /\ cfgMax = 0 => mRuns = 0 /\ mOpened = 0 /\ mPc \in {"none", "loop", "returned"}

\* C34 witness: under a maximum of two the goroutine has opened two
\* subscriptions, processed notifications on them, and returned on its third
\* pass through the loop with m.ctx not cancelled.
C34_Witness ==
    /\ cfgMax = 2
    /\ mPc = "returned"
    /\ ~mCtxDone
    /\ mAttempts = 3
    /\ mRuns = 2
    /\ mOpened = 2
    /\ mReads = MaxReads

\* C34, the workers of the manager (maximum of two): the attempts of a
\* worker that has not returned stay within the maximum.
C34_WorkersWithinMaximum ==
    \A w \in Workers : wAttempts[w] \in 0..maxReconnectAttempts

\* C34, the maximum of zero: the goroutine has returned without a call of
\* runLiveQuery, m.ctx not cancelled.
C34_ZeroMaximumReturns ==
    /\ cfgMax = 0
    /\ mPc = "returned"
    /\ ~mCtxDone
    /\ mAttempts = 1
    /\ mRuns = 0

----------------------------------------------------------------------------
(* Claims about the removal of orphaned side tables *)

\* A removal of key k ends in this step: connManager.Get failed, or the
\* DELETE has been sent.
RemovalEnds(k) ==
    \/ rPc = "pick" /\ k \in DOMAIN rFailed' /\ k \notin DOMAIN rFailed
    \/ rPc = "rm_delete" /\ rKey = k /\ rPc' = "pick"

\* A removal of key k begins in this step.
RemovalBegins(k) ==
    \/ rPc = "pick" /\ k \in DOMAIN rFailed' /\ k \notin DOMAIN rFailed
    \/ rPc = "pick" /\ rPc' = "rm_events" /\ rKey' = k

\* C35: with orphan removal enabled an orphaned table leaves activeTables in
\* the pass that tried to remove it, whether removeStatsTable succeeded or
\* not; a removal is begun only for a key of activeTables, so a key whose
\* removal failed is not removed again until it is provisioned again: it is
\* in activeTables only after a createStatsTable that succeeded since.
C35_RemovalAttemptedOnce ==
    [][/\ \A k \in DOMAIN activeTables :
             RemovalEnds(k) => k \notin DOMAIN activeTables'
       /\ \A k \in {TableString(t) : t \in StatsTables} :
             /\ RemovalBegins(k) =>
                   /\ removeOrphanTables
                   /\ k \in DOMAIN activeTables
                   /\ k \notin DOMAIN rFailed
             /\ (k \in DOMAIN rFailed /\ k \in DOMAIN activeTables') =>
                   /\ rPc = "cr_event"
                   /\ rKey = k
                   /\ k \notin DOMAIN rFailed'
       /\ (DOMAIN rFailed) \cap (DOMAIN activeTables) = {}]_vars

\* C35 witness: the removal of a table failed before the third call was
\* made, leaving its side-table record in the database; the pass of the
\* third call, which did not desire the table either, has run to its end,
\* and the record is still there.
C35_Witness ==
    /\ removeOrphanTables
    /\ stCalls = 3
    /\ stPending = {}
    /\ rPc = "idle"
    /\ stMu = NoOwner
    /\ sPc = "returned"
    /\ \E t \in StatsTables :
          /\ TableString(t) \in DOMAIN rFailed
          /\ rFailed[TableString(t)] < stCalls
          /\ t \notin sDesired
          /\ TableString(t) \notin DOMAIN activeTables
          /\ RecordKey(<<t.Namespace, t.Database>>, getStatsTableName(t.Table))
                \in DOMAIN dbRecords

----------------------------------------------------------------------------
(* Claims about the keys of scopes and tables *)

\* The scope of a table, and whether Get accepts it.
ScopeOfTable(t) == <<t.Namespace, t.Database>>
ScopeAccepted(t) == ~MultiMismatch(t.Namespace, t.Database)
ColonFree(name) == \A i \in 1..Len(name) : name[i] # ":"
ColonFreeTable(t) ==
    ColonFree(t.Namespace) /\ ColonFree(t.Database) /\ ColonFree(t.Table)

\* C37: two different scopes have different scope keys, two different tables
\* have different canonical strings and so different counter keys, and
\* parsing the canonical string of a table gives the table back, names with
\* colons included.
C37_DistinctKeys ==
    kCompared =>
        /\ (ScopeAccepted(kT) /\ ScopeAccepted(kU)
                /\ ScopeOfTable(kT) # ScopeOfTable(kU)) =>
              ConnectionKey(kT.Namespace, kT.Database)
                 # ConnectionKey(kU.Namespace, kU.Database)
        /\ kT # kU =>
              /\ TableString(kT) # TableString(kU)
              /\ makeKey(kT, OperationTypeDocument)
                    # makeKey(kU, OperationTypeDocument)
        /\ kParsed = [id |-> kT, err |-> ErrNil]

\* C37 without colons in the names: different scopes have different scope
\* keys, different tables different strings and counter keys, and the string
\* of a table parses to the table.
C37_ColonFreeDistinctKeys ==
    (kCompared /\ ColonFreeTable(kT) /\ ColonFreeTable(kU)) =>
        /\ (ScopeAccepted(kT) /\ ScopeAccepted(kU)
                /\ ScopeOfTable(kT) # ScopeOfTable(kU)) =>
              ConnectionKey(kT.Namespace, kT.Database)
                 # ConnectionKey(kU.Namespace, kU.Database)
        /\ kT # kU =>
              /\ TableString(kT) # TableString(kU)
              /\ makeKey(kT, OperationTypeDocument)
                    # makeKey(kU, OperationTypeDocument)
        /\ kParsed = [id |-> kT, err |-> ErrNil]

\* C37, the shared scope key: two different scopes that Get accepts have one
\* scope key.
C37_ScopesShareKey ==
    /\ kCompared
    /\ ScopeAccepted(kT) /\ ScopeAccepted(kU)
    /\ ScopeOfTable(kT) # ScopeOfTable(kU)
    /\ ConnectionKey(kT.Namespace, kT.Database)
          = ConnectionKey(kU.Namespace, kU.Database)

\* C37, the shared table key: two different tables with non-empty names have
\* one canonical string.
C37_TablesShareKey ==
    /\ kCompared
    /\ kT # kU
    /\ \A name \in {kT.Namespace, kT.Database, kT.Table,
                    kU.Namespace, kU.Database, kU.Table} : name # <<>>
    /\ TableString(kT) = TableString(kU)

\* C37, the string that does not parse: the canonical string of a table with
\* a colon in a name is rejected by ParseTableIdentifier.
C37_StringRejected ==
    /\ kCompared
    /\ kParsed.err # ErrNil

----------------------------------------------------------------------------
(* Claims about the reconciliation passes of both managers.                *)

\* A reconcileQueries goroutine gets past m.mu.Lock() in this step.
LQPassEnters == \E p \in pending : p \notin pending'

\* A reconcileTables goroutine gets past m.mu.Lock() in this step.
StatsPassEnters == \E p \in stPending : p \notin stPending'

\* C21: for each manager at most one reconciliation pass executes its body
\* at a time. While a pass of the live-query manager is between its Lock and
\* its Unlock no other pass gets past the Lock, the desired list of the pass
\* stays its own, and no worker registers or removes itself in activeQueries;
\* while a pass of the stats manager is between its Lock and its Unlock no
\* other pass gets past the Lock and the desired list of the pass stays its
\* own.
C21_PassesMutuallyExclusive ==
    [][/\ lqMu = "reconcile" =>
            /\ ~LQPassEnters
            /\ activeQueries' = activeQueries
            /\ lqDesired' = lqDesired \/ lqMu' = NoOwner
       /\ stMu = "reconcile" =>
            /\ ~StatsPassEnters
            /\ rDesired' = rDesired \/ stMu' = NoOwner]_vars

\* C21 witness: a pass is in its body while the pass of an overlapping scrape
\* waits for the mutex.
C21_Witness == lqMu = "reconcile" /\ pending # {}

\* C21, the other cases: a worker waits to register while a pass is in its
\* body; a pass of the stats manager is in its body while another waits.
C21_WorkerWaits == lqMu = "reconcile" /\ \E w \in Workers : wPc[w] = "register"
C21_StatsPassWaits == stMu = "reconcile" /\ stPending # {}

Init ==
    /\ NewOperationAccumulator
    /\ NewLiveQueryManager
    /\ NewConnectionManagers
    /\ NoTableFilter
    /\ NewOperationTypeDetector
    /\ NewStatsTableManagerState
    /\ NewTableInfoCache
    /\ NoEvent
    /\ NoNotification
    /\ NoStatsTableCollector
    /\ NoManagedQuery
    /\ NoKeys

SpecAcc == Init /\ [][NextAcc]_vars

SpecLQ == Init /\ [][NextLQ]_vars

SpecLQReadd == Init /\ [][NextLQReadd]_vars

\* The goroutines of the manager are scheduled: a step of a worker, the rest
\* of a pass that holds the lock and the return of Stop's wait are taken
\* when they stay possible. Calls, passes not yet started and failures of a
\* stream need not happen.
SpecLQFair ==
    /\ SpecLQ
    /\ WF_vars(ReconcileStart)
    /\ WF_vars(StopReturns)
    /\ \A w \in Workers :
          /\ WF_vars(ManageLoop(w))
          /\ WF_vars(ManageDelay(w))
          /\ WF_vars(RunRegister(w))
          /\ WF_vars(RunCtxDone(w))
          /\ WF_vars(ManageAfterError(w))
          /\ WF_vars(ManageAfterNil(w))

SpecPool == Init /\ [][NextPool]_vars

SpecFilter == Init /\ [][NextFilter]_vars

SpecDetect == Init /\ [][NextDetect]_vars

SpecStats == Init /\ [][NextStats]_vars

SpecStatsRemoval == Init /\ [][NextStatsRemoval]_vars

SpecCache == Init /\ [][NextCache]_vars
SpecCacheWriter == Init /\ [][NextCacheWriter]_vars

\* Both managers. They share no state, so a behaviour of the two together is
\* a behaviour of each alone: the specification runs one manager or the
\* other from the state after construction.
NextManagers ==
    \/ dbConnManager = "nil" /\ NextLQ
    \/ numCalls = 0 /\ ~mCancelled /\ NextStats

SpecManagers == Init /\ [][NextManagers]_vars

SpecEvent == Init /\ [][NextEvent]_vars

SpecNotify == Init /\ [][NextNotify]_vars

SpecCollect == Init /\ [][NextCollect]_vars

SpecManage == Init /\ [][NextManage]_vars

SpecKeys == Init /\ [][NextKeys]_vars

====
